---- MODULE Spec2Model ----
(***************************************************************************)
(* SphynxScript: the infix expression evaluator (src/evaluator.hpp) and    *)
(* the line-oriented execution engine (src/src/executionengine.hpp).       *)
(*                                                                         *)
(* Text (std::string) is a sequence of one-character strings, so that the  *)
(* tokenizer, the regular expressions and the textual variable             *)
(* substitution are computed character by character as the code does.      *)
(* Numbers (C++ float) are rationals num/den: rounded to the 24 bits of a   *)
(* float from 2^24 on, exact below, which agrees with the 32-bit float     *)
(* arithmetic of the code as far as the six decimals of a float show, for  *)
(* the integers and the fractions of small magnitude of the inputs below.  *)
(***************************************************************************)
EXTENDS Integers, Sequences, FiniteSets, TLC

VARIABLES
    \* ---- Evaluator (src/evaluator.hpp)
    precedence,      \* Evaluator::precedence, a std::map mutated by operator[]
    expression,      \* the text handed to Evaluator::evaluate
    evalResult,      \* the EvalResult it returned
    overflowTraps,   \* the build: whether LLONG_MIN % -1 traps (SIGFPE) or gives 0
    \* ---- ExecutionEngine (src/src/executionengine.hpp)
    listing,         \* the script file, a sequence of lines
    finalNewline,    \* whether the last line of the file ends with a newline
    filePos,         \* index of the line the next std::getline(file, line) reads
    programCounter,
    scopeLevel,
    functionDepth,
    returnStack,
    variables,       \* std::map<std::string, Variable>
    functions,       \* std::map<std::string, Function>
    style,           \* "end" or "brackets"
    status,          \* "running", or how run() / the process ended
    stderrLog,       \* what the last step wrote to std::cerr (message kinds)
    stdoutLog,       \* what the last step wrote to std::cout
    lastLine,        \* index of the line the last step read (0 before the first)
    \* ---- history (observation only)
    ifEntry          \* scope depth and variables at the if lines of the open blocks

evalVars == <<precedence, expression, evalResult, overflowTraps>>
engineVars == <<listing, finalNewline, filePos, programCounter, scopeLevel, functionDepth,
                returnStack, variables, functions, style, status, stderrLog,
                stdoutLog, lastLine, ifEntry>>
vars == <<precedence, expression, evalResult, overflowTraps, listing, finalNewline, filePos, programCounter,
          scopeLevel, functionDepth, returnStack, variables, functions, style,
          status, stderrLog, stdoutLog, lastLine, ifEntry>>

----------------------------------------------------------------------------
(* Characters and text                                                      *)

Digit == {"0", "1", "2", "3", "4", "5", "6", "7", "8", "9"}
Lower == {"a", "b", "c", "d", "e", "f", "g", "h", "i", "j", "k", "l", "m",
          "n", "o", "p", "q", "r", "s", "t", "u", "v", "w", "x", "y", "z"}
Upper == {"A", "B", "C", "D", "E", "F", "G", "H", "I", "J", "K", "L", "M",
          "N", "O", "P", "Q", "R", "S", "T", "U", "V", "W", "X", "Y", "Z"}
Alpha == Lower \cup Upper
Alnum == Alpha \cup Digit
Space == {" ", "\t"}
QUOTE == "\""

Last(s) == s[Len(s)]
Front(s) == SubSeq(s, 1, Len(s) - 1)

\* First index >= i of s whose character is not in cls (Len(s)+1 if none).
RECURSIVE RunEnd(_, _, _)
RunEnd(s, i, cls) ==
    IF i <= Len(s) /\ s[i] \in cls THEN RunEnd(s, i + 1, cls) ELSE i

\* First index >= i of s whose character is ch (Len(s)+1 if none).
RECURSIVE FindChar(_, _, _)
FindChar(s, i, ch) ==
    IF i <= Len(s) /\ s[i] # ch THEN FindChar(s, i + 1, ch) ELSE i

\* TRUE iff word w occurs in s starting at index i.
StartsAt(s, i, w) ==
    /\ i >= 1
    /\ i + Len(w) - 1 <= Len(s)
    /\ SubSeq(s, i, i + Len(w) - 1) = w

DigitVal(c) ==
    CASE c = "0" -> 0 [] c = "1" -> 1 [] c = "2" -> 2 [] c = "3" -> 3
      [] c = "4" -> 4 [] c = "5" -> 5 [] c = "6" -> 6 [] c = "7" -> 7
      [] c = "8" -> 8 [] c = "9" -> 9

DigitChar(n) ==
    CASE n = 0 -> "0" [] n = 1 -> "1" [] n = 2 -> "2" [] n = 3 -> "3"
      [] n = 4 -> "4" [] n = 5 -> "5" [] n = 6 -> "6" [] n = 7 -> "7"
      [] n = 8 -> "8" [] n = 9 -> "9"

\* Value of a run of decimal digits (0 for the empty run).
RECURSIVE DigitsVal(_)
DigitsVal(ds) ==
    IF ds = <<>> THEN 0 ELSE 10 * DigitsVal(Front(ds)) + DigitVal(Last(ds))

\* Decimal digits of a natural number.
RECURSIVE NatText(_)
NatText(n) ==
    IF n < 10 THEN <<DigitChar(n)>>
    ELSE Append(NatText(n \div 10), DigitChar(n % 10))

Abs(n) == IF n < 0 THEN -n ELSE n

\* Integer division truncating toward zero, as C++ / on integers (d # 0).
TruncDiv(n, d) ==
    IF (n >= 0) = (d > 0) THEN Abs(n) \div Abs(d) ELSE -(Abs(n) \div Abs(d))

\* Remainder with the sign of the dividend, as C++ % (d # 0).
TruncMod(n, d) == n - d * TruncDiv(n, d)

----------------------------------------------------------------------------
(* EvalResult and its conversions (src/evaluator.hpp:13-30)                 *)

\* Text of the keywords the evaluator compares against.
T_true == <<"t", "r", "u", "e">>
T_false == <<"f", "a", "l", "s", "e">>

EvalResult(v, t) == [value |-> v, type |-> t]

\* A thrown std::runtime_error as evaluate() returns it: EvalResult(e.what(),
\* "error").  The message is kept as one unit, not spelled out in characters.
Thrown(msg) == EvalResult(<<msg>>, "error")

RECURSIVE Pow10(_)
Pow10(k) == IF k = 0 THEN 1 ELSE 10 * Pow10(k - 1)

\* The digits of a numeral without its leading zeros.
RECURSIVE StripZeros(_)
StripZeros(ds) == IF ds # <<>> /\ ds[1] = "0" THEN StripZeros(Tail(ds)) ELSE ds

\* a > b for two runs of digits of the same length.
RECURSIVE DigitsGreater(_, _)
DigitsGreater(a, b) ==
    IF a = <<>> THEN FALSE
    ELSE IF a[1] = b[1] THEN DigitsGreater(Tail(a), Tail(b))
    ELSE DigitVal(a[1]) > DigitVal(b[1])

\* a > b for two numerals without leading zeros.
MagGreater(a, b) == Len(a) > Len(b) \/ (Len(a) = Len(b) /\ DigitsGreater(a, b))

\* The natural number written ds is greater than the one written limit.
Exceeds(ds, limit) == MagGreater(StripZeros(ds), limit)

\* The largest integer that std::stof still rounds to FLT_MAX: from the next
\* one on the result is out of the range of float.
FLT_MAX_ROUNDED == <<"3", "4", "0", "2", "8", "2", "3", "5", "6", "7", "7", "9", "7", "3", "3", "6", "6", "1", "6", "3", "7", "5", "3", "9", "3", "9", "5", "4", "5", "8", "1", "4", "2", "5", "6", "8", "4", "4", "7">>

\* LLONG_MAX and the magnitude of LLONG_MIN.
LLONG_MAX_TEXT == <<"9", "2", "2", "3", "3", "7", "2", "0", "3", "6", "8", "5", "4", "7", "7", "5", "8", "0", "7">>
LLONG_MIN_TEXT == <<"9", "2", "2", "3", "3", "7", "2", "0", "3", "6", "8", "5", "4", "7", "7", "5", "8", "0", "8">>

\* The parts of the numeral std::stof and std::stoll read in s: leading white
\* space, an optional sign, digits, and for stof at most one decimal point
\* with digits.  Exponents, hexadecimal floats, "inf" and "nan" are not
\* modelled: no input below contains them.
Numeral(s) ==
    LET a == RunEnd(s, 1, Space)
        b == IF a <= Len(s) /\ s[a] \in {"+", "-"} THEN a + 1 ELSE a
        c == RunEnd(s, b, Digit)
        d == IF c <= Len(s) /\ s[c] = "." THEN RunEnd(s, c + 1, Digit) ELSE c
    IN  [neg |-> a <= Len(s) /\ s[a] = "-",
         ip  |-> SubSeq(s, b, c - 1),
         fp  |-> IF d > c THEN SubSeq(s, c + 1, d - 1) ELSE <<>>,
         pos |-> d - 1]

\* std::stof leaves the range of float: it throws std::out_of_range above
\* FLT_MAX and for a non-zero value below 1e-38 (values between 1e-38 and
\* FLT_MIN are not modelled: no input below contains them).
StofOutOfRange(n) ==
    \/ Exceeds(n.ip, FLT_MAX_ROUNDED)
    \/ /\ StripZeros(n.ip) = <<>>
       /\ StripZeros(n.fp) # <<>>
       /\ Len(n.fp) - Len(StripZeros(n.fp)) >= 38

\* std::stof(s, &pos): ok is FALSE where stof throws (std::invalid_argument
\* without a digit, std::out_of_range), pos is the index of the last
\* character parsed.
StofParsed(n) ==
    [ok |-> Len(n.ip) + Len(n.fp) > 0 /\ ~StofOutOfRange(n), pos |-> n.pos]

Stof(s) == StofParsed(Numeral(s))

\* The fraction num/den (den > 0) in lowest terms.
RECURSIVE GCD(_, _)
GCD(a, b) == IF b = 0 THEN a ELSE GCD(b, a % b)
LowestTerms(num, den, g) == [num |-> num \div g, den |-> den \div g]
Fraction(num, den) == LowestTerms(num, den, GCD(Abs(num), den))

\* The value std::stof gives, as the fraction num/den in lowest terms.
RatOf(n) ==
    Fraction((IF n.neg THEN -1 ELSE 1)
                * (DigitsVal(n.ip) * Pow10(Len(n.fp)) + DigitsVal(n.fp)),
             Pow10(Len(n.fp)))

\* std::stoll(s) throws std::out_of_range.
StollOutOfRange(n) ==
    Exceeds(n.ip, IF n.neg THEN LLONG_MIN_TEXT ELSE LLONG_MAX_TEXT)

StollThrows(s) == StollOutOfRange(Numeral(s))

\* std::stoll(s) gives LLONG_MIN.
IsLLongMin(s) == Numeral(s).neg /\ StripZeros(Numeral(s).ip) = LLONG_MIN_TEXT

\* std::stoll(s): optional sign and the leading run of digits.
StollValue(n) == IF n.neg THEN -DigitsVal(n.ip) ELSE DigitsVal(n.ip)

Stoll(s) == StollValue(Numeral(s))

\* The unit in the last place of the float nearest to the natural number m:
\* a float has 24 significant bits.
RECURSIVE FloatUnit(_, _)
FloatUnit(m, u) == IF m \div u < 16777216 THEN u ELSE FloatUnit(m, 2 * u)

\* |num| / den (den > 0) rounded to the nearest multiple of u, ties to even.
RoundToUnit(num, den, u) ==
    LET q == Abs(num) \div (den * u)
        twice == 2 * (Abs(num) - q * den * u)
    IN  IF twice > den * u \/ (twice = den * u /\ q % 2 = 1) THEN (q + 1) * u ELSE q * u

\* The float nearest to num/den (den > 0).  From 2^24 on the floats are
\* integers 2, 4, 8, ... apart.  Below 2^24 the value is kept exact: the
\* rounding of a fraction there does not show in the six decimals of a float
\* for the magnitudes of the inputs below.
RoundFloat(q) ==
    IF Abs(q.num) \div q.den < 16777216 THEN q
    ELSE [num |-> (IF q.num < 0 THEN -1 ELSE 1)
                     * RoundToUnit(q.num, q.den, FloatUnit(Abs(q.num) \div q.den, 1)),
          den |-> 1]

asFloat(r) == RoundFloat(RatOf(Numeral(r.value)))
asInt(r) == Stoll(r.value)
asBool(r) == r.value = T_true

\* The value with its quotes: a deviation from EvalResult::asString that the
\* concatenation of strings must tell apart.
KeepsQuotes(r) == r.value

\* EvalResult::asString: the contents without the quotes.
asString(r) ==
    IF r.type = "string" /\ Len(r.value) >= 2
    THEN SubSeq(r.value, 2, Len(r.value) - 1)
    ELSE r.value

\* std::to_string(long long).
IntText(n) == IF n < 0 THEN <<"-">> \o NatText(-n) ELSE NatText(n)

\* Six decimal digits of a count of millionths.
PadLeft6(t) == [i \in 1..(6 - Len(t)) |-> "0"] \o t

Frac6Text(m) == PadLeft6(NatText(m))

\* std::to_string(float) of num/den (den > 0): "%f", six decimals, rounded to
\* nearest.
MillionthsText(whole, millionths, negative) ==
    (IF negative THEN <<"-">> ELSE <<>>)
        \o NatText(whole + millionths \div 1000000)
        \o <<".">> \o Frac6Text(millionths % 1000000)

\* The count m of the first decimals of a fraction followed by k more
\* decimals of r/den (0 <= r < den), rounded to nearest on the rest.
RECURSIVE DecimalDigits(_, _, _, _)
DecimalDigits(m, r, den, k) ==
    IF k = 0 THEN (IF 2 * r >= den THEN m + 1 ELSE m)
    ELSE DecimalDigits(10 * m + (10 * r) \div den, (10 * r) % den, den, k - 1)

FloatText(num, den) ==
    MillionthsText(Abs(num) \div den, DecimalDigits(0, Abs(num) % den, den, 6), num < 0)

----------------------------------------------------------------------------
(* Type detection (src/evaluator.hpp:77-106)                                *)

isBool(s) == s = T_true \/ s = T_false

isString(s) == Len(s) >= 2 /\ s[1] = QUOTE /\ Last(s) = QUOTE

\* stof parsed a number and the *entire* string (pos == s.length()).
ParsedAll(p, s) == p.ok /\ p.pos = Len(s)

isNumber(s) == ParsedAll(Stof(s), s)

getTokenType(token) ==
    IF isBool(token) THEN "bool"
    ELSE IF isString(token) THEN "string"
    ELSE IF isNumber(token)
         THEN (IF \A i \in 1..Len(token) : token[i] # "." THEN "int" ELSE "float")
    ELSE "operator"

----------------------------------------------------------------------------
(* Tokenizer (src/evaluator.hpp:109-212)                                    *)

SingleCharOps == {"(", ")", "*", "/", "%"}
UnaryPrev == {"(", "=", "!", "<", ">", "|", "&", "+", "-", "*", "/", "%"}
MultiStart == {"=", "!", "<", ">", "|", "&"}
NumChars == Digit \cup {"."}

\* The string-literal loop of lines 176-185, started after the opening quote:
\* pos is the index it stops at, tok the characters collected.
RECURSIVE ScanString(_, _, _)
ScanString(e, k, acc) ==
    IF k <= Len(e) /\ e[k] # QUOTE
    THEN IF e[k] = "\\" /\ k + 1 <= Len(e)
         THEN ScanString(e, k + 2, Append(acc, e[k + 1]))
         ELSE ScanString(e, k + 1, Append(acc, e[k]))
    ELSE [pos |-> k, tok |-> acc]

\* Lines 149-161: the operator starting at e[i], one or two characters long.
MultiCharOp(e, i) ==
    LET c == e[i]
        n == IF i + 1 <= Len(e) THEN e[i + 1] ELSE ""
    IN  IF \/ (c \in {"=", "!", "<", ">"} /\ n = "=")
           \/ (c = "&" /\ n = "&")
           \/ (c = "|" /\ n = "|")
        THEN <<c, n>>
        ELSE <<c>>

\* tokenize(expression) from index i on with the tokens collected so far.
\* what is "" on normal return and the exception's message otherwise.
RECURSIVE TokenizeFrom(_, _, _)
TokenizeFrom(e, i, tokens) ==
    IF i > Len(e) THEN [what |-> "", tokens |-> tokens]
    ELSE LET c == e[i] IN
      IF c \in Space THEN TokenizeFrom(e, i + 1, tokens)
      ELSE IF c \in SingleCharOps THEN TokenizeFrom(e, i + 1, Append(tokens, <<c>>))
      ELSE IF c \in {"+", "-"} THEN
        LET isUnary == \/ tokens = <<>>
                       \/ Last(Last(tokens)) \in UnaryPrev
                       \/ Last(tokens) = <<"(">>
        IN  IF isUnary /\ i + 1 <= Len(e) /\ e[i + 1] \in NumChars
            THEN LET j == RunEnd(e, i + 1, NumChars)
                 IN  TokenizeFrom(e, j, Append(tokens, SubSeq(e, i, j - 1)))
            ELSE TokenizeFrom(e, i + 1, Append(tokens, <<c>>))
      ELSE IF c \in MultiStart THEN
        LET op == MultiCharOp(e, i)
        IN  TokenizeFrom(e, i + Len(op), Append(tokens, op))
      ELSE IF c \in NumChars THEN
        LET j == RunEnd(e, i, NumChars)
        IN  TokenizeFrom(e, j, Append(tokens, SubSeq(e, i, j - 1)))
      ELSE IF c = QUOTE THEN
        LET sc == ScanString(e, i + 1, <<QUOTE>>)
        IN  IF sc.pos > Len(e)
            THEN [what |-> "Syntax Error: Unterminated string", tokens |-> tokens]
            ELSE TokenizeFrom(e, sc.pos + 1, Append(tokens, Append(sc.tok, QUOTE)))
      ELSE IF c \in Alpha THEN
        LET j == RunEnd(e, i, Alpha)
            word == SubSeq(e, i, j - 1)
        IN  IF word = T_true \/ word = T_false
            THEN TokenizeFrom(e, j, Append(tokens, word))
            ELSE [what |-> "Syntax Error: Unknown identifier", tokens |-> tokens]
      ELSE [what |-> "Syntax Error: Invalid character", tokens |-> tokens]

tokenize(e) == TokenizeFrom(e, 1, <<>>)

----------------------------------------------------------------------------
(* Shunting-Yard (src/evaluator.hpp:217-270)                                *)

O_or == <<"|", "|">>
O_and == <<"&", "&">>
O_eq == <<"=", "=">>
O_ne == <<"!", "=">>
O_le == <<"<", "=">>
O_ge == <<">", "=">>

\* A precedence map in which && binds no tighter than ||: a deviation from
\* lines 218-219 that the binding of the logical operators must tell apart.
LogicalOperatorsLevel ==
    (O_or :> 1) @@ (O_and :> 1) @@ (O_eq :> 3) @@ (O_ne :> 3) @@
    (<<"<">> :> 4) @@ (<<">">> :> 4) @@ (O_le :> 4) @@ (O_ge :> 4) @@
    (<<"+">> :> 5) @@ (<<"-">> :> 5) @@
    (<<"*">> :> 6) @@ (<<"/">> :> 6) @@ (<<"%">> :> 6) @@
    (<<"!">> :> 7)

\* The initial contents of Evaluator::precedence (lines 217-225).
InitialPrecedence ==
    (O_or :> 1) @@ (O_and :> 2) @@ (O_eq :> 3) @@ (O_ne :> 3) @@
    (<<"<">> :> 4) @@ (<<">">> :> 4) @@ (O_le :> 4) @@ (O_ge :> 4) @@
    (<<"+">> :> 5) @@ (<<"-">> :> 5) @@
    (<<"*">> :> 6) @@ (<<"/">> :> 6) @@ (<<"%">> :> 6) @@
    (<<"!">> :> 7)

\* A lookup that raises the precedence it finds: a deviation from
\* std::map::operator[] that the independence of evaluate from its history
\* must tell apart.
LookupRaises(prec, key) ==
    IF key \in DOMAIN prec THEN [prec EXCEPT ![key] = @ + 3] ELSE prec @@ (key :> 0)

\* std::map::operator[]: a key that is absent is inserted with the value 0.
MapTouch(prec, key) == IF key \in DOMAIN prec THEN prec ELSE prec @@ (key :> 0)

IsOperand(token) == getTokenType(token) \in {"int", "float", "string", "bool"}

\* The loop of lines 251-255: pop operators of precedence >= the token's.
RECURSIVE PopWhileGE(_, _, _, _)

\* The test with > for >=: a deviation from line 252 that makes operators of
\* equal precedence associate right to left.
PopIfGreater(out, stack, token, p1) ==
    IF p1[Last(stack)] > p1[token]
    THEN PopWhileGE(Append(out, Last(stack)), Front(stack), token, p1)
    ELSE [out |-> out, stack |-> stack, prec |-> p1]

\* One test of line 252 with both keys looked up in the map p1.
PopIfGE(out, stack, token, p1) ==
    IF p1[Last(stack)] >= p1[token]
    THEN PopWhileGE(Append(out, Last(stack)), Front(stack), token, p1)
    ELSE [out |-> out, stack |-> stack, prec |-> p1]

PopWhileGE(out, stack, token, prec) ==
    IF stack # <<>> /\ Last(stack) # <<"(">>
    THEN PopIfGE(out, stack, token, MapTouch(MapTouch(prec, Last(stack)), token))
    ELSE [out |-> out, stack |-> stack, prec |-> prec]

\* The loop of lines 241-244: pop to the output until "(" is on top.
RECURSIVE PopToParen(_, _)
PopToParen(out, stack) ==
    IF stack # <<>> /\ Last(stack) # <<"(">>
    THEN PopToParen(Append(out, Last(stack)), Front(stack))
    ELSE [out |-> out, stack |-> stack]

\* The loop of lines 261-267: what is the message thrown at a left-over "(".
RECURSIVE PopRemaining(_, _)
PopRemaining(out, stack) ==
    IF stack = <<>> THEN [what |-> "", out |-> out]
    ELSE IF Last(stack) = <<"(">>
         THEN [what |-> "Syntax Error: Mismatched parentheses", out |-> out]
         ELSE PopRemaining(Append(out, Last(stack)), Front(stack))

\* shuntingYard(tokens) from token i on; the operator stack has its top last.
RECURSIVE ShuntFrom(_, _, _, _, _)

\* Lines 245-248 after the pop loop r of a ")".
ShuntCloseParen(tokens, i, r, prec) ==
    IF r.stack = <<>>
    THEN [what |-> "Syntax Error: Mismatched parentheses", out |-> r.out, prec |-> prec]
    ELSE ShuntFrom(tokens, i + 1, r.out, Front(r.stack), prec)

\* Line 256 after the pop loop r of an operator.
ShuntPushOperator(tokens, i, r) ==
    ShuntFrom(tokens, i + 1, r.out, Append(r.stack, tokens[i]), r.prec)

\* Lines 261-269 with the outcome r of the final pop loop.
ShuntFinish(r, prec) == [what |-> r.what, out |-> r.out, prec |-> prec]

ShuntFrom(tokens, i, out, stack, prec) ==
    IF i > Len(tokens) THEN ShuntFinish(PopRemaining(out, stack), prec)
    ELSE IF IsOperand(tokens[i])
    THEN ShuntFrom(tokens, i + 1, Append(out, tokens[i]), stack, prec)
    ELSE IF tokens[i] = <<"(">>
    THEN ShuntFrom(tokens, i + 1, out, Append(stack, tokens[i]), prec)
    ELSE IF tokens[i] = <<")">>
    THEN ShuntCloseParen(tokens, i, PopToParen(out, stack), prec)
    ELSE ShuntPushOperator(tokens, i, PopWhileGE(out, stack, tokens[i], prec))

shuntingYard(tokens, prec) == ShuntFrom(tokens, 1, <<>>, <<>>, prec)

----------------------------------------------------------------------------
(* Operators (src/evaluator.hpp:57-74, 309-428)                             *)

IsNumeric(r) == r.type \in {"int", "float"}

\* coerceToNumber: a string whose contents are a number becomes that number.
\* Lines 64-68 on the unquoted contents raw_value.
CoerceRaw(r, raw_value) ==
    IF isNumber(raw_value)
    THEN EvalResult(raw_value,
                    IF \A i \in 1..Len(raw_value) : raw_value[i] # "."
                    THEN "int" ELSE "float")
    ELSE r

coerceToNumber(r) == IF r.type = "string" THEN CoerceRaw(r, asString(r)) ELSE r

BoolText(b) == IF b THEN T_true ELSE T_false

\* l == r and l < r on the float values l, r (positive denominators).
RatEq(l, r) == l.num * r.den = r.num * l.den
RatLt(l, r) == l.num * r.den < r.num * l.den

applyUnaryOp(operand, op) ==
    IF op = <<"!">>
    THEN IF operand.type # "bool"
         THEN Thrown("Type Error: Operator '!' requires a boolean operand")
         ELSE EvalResult(BoolText(~asBool(operand)), "bool")
    ELSE Thrown("Internal Error: Unknown unary operator")

\* Lines 358-383.  In the numeric branch the sum is computed into a local and
\* the branch ends without a return, so control reaches the throw of line 382.
PlusCoerced(L, R) ==
    IF IsNumeric(L) /\ IsNumeric(R)
    THEN Thrown("Type Error: Operator '+' not supported")
    ELSE IF L.type = "string" \/ R.type = "string"
    THEN EvalResult(<<QUOTE>>
                      \o (IF L.type = "string" THEN asString(L) ELSE L.value)
                      \o (IF R.type = "string" THEN asString(R) ELSE R.value)
                      \o <<QUOTE>>, "string")
    ELSE Thrown("Type Error: Operator '+' not supported")

ApplyPlus(lhs, rhs) ==
    IF lhs.type = "string" /\ rhs.type = "string"
    THEN EvalResult(<<QUOTE>> \o asString(lhs) \o asString(rhs) \o <<QUOTE>>, "string")
    ELSE PlusCoerced(coerceToNumber(lhs), coerceToNumber(rhs))

\* The result formatted by the types of the operands alone: a deviation from
\* lines 423-427 that the fractional difference of Int-typed operands must
\* tell apart.
FormatsByType(num, den, result_type) ==
    IF result_type = "float"
    THEN EvalResult(FloatText(num, den), "float")
    ELSE EvalResult(IntText(TruncDiv(num, den)), "int")

\* Lines 423-427: the float result num/den (den > 0) as text, by result type.
FormatFloat(num, den, result_type) ==
    IF result_type = "float" \/ num % den # 0
    THEN EvalResult(FloatText(num, den), "float")
    ELSE EvalResult(IntText(TruncDiv(num, den)), "int")

\* The same for the float that holds the exact result num/den of an
\* operation on floats.
FormatRounded(q, result_type) == FormatFloat(q.num, q.den, result_type)

FormatResult(num, den, result_type) ==
    FormatRounded(RoundFloat([num |-> num, den |-> den]), result_type)

\* Lines 403-410: l / r for r # 0, as the fraction n/d with d > 0.
Divide(l, r, result_type) ==
    FormatResult(IF r.num < 0 THEN -(l.num * r.den) ELSE l.num * r.den,
                 Abs(r.num) * l.den,
                 IF result_type = "int" /\ (l.num * r.den) % (Abs(r.num) * l.den) # 0
                 THEN "float" ELSE result_type)

\* Line 416 for LLONG_MIN % -1, a signed overflow: the behaviour is undefined;
\* the division instruction traps (the process is killed by SIGFPE) or the
\* remainder is 0, as the build has it.
SignedOverflow ==
    IF overflowTraps THEN EvalResult(<<"SIGFPE">>, "fault") ELSE EvalResult(<<"0">>, "int")

\* Lines 411-418 (the float values of the operands are not used).
Modulo(lhs, rhs) ==
    IF lhs.type # "int" \/ rhs.type # "int"
    THEN Thrown("Type Error: Operator '%' requires integer operands")
    ELSE IF StollThrows(rhs.value) THEN Thrown("stoll")
    ELSE IF asInt(rhs) = 0 THEN Thrown("Runtime Error: Modulo by zero")
    ELSE IF StollThrows(lhs.value) THEN Thrown("stoll")
    ELSE IF IsLLongMin(lhs.value) /\ asInt(rhs) = -1 THEN SignedOverflow
    ELSE FormatResult(TruncMod(asInt(lhs), asInt(rhs)), 1, "int")

\* Lines 396-410 and 419-421 on the float values l and r of the coerced
\* operands.
ArithOn(lhs, rhs, op, l, r, result_type) ==
    IF op = <<"-">>
    THEN FormatResult(l.num * r.den - r.num * l.den, l.den * r.den, result_type)
    ELSE IF op = <<"*">>
    THEN FormatResult(l.num * r.num, l.den * r.den, result_type)
    ELSE IF op = <<"/">>
    THEN (IF r.num = 0 THEN Thrown("Runtime Error: Division by zero")
          ELSE Divide(l, r, result_type))
    ELSE Thrown("Internal Error: Unknown operator")

\* Lines 388-394 on the coerced operands L and R.
ArithCoerced(lhs, rhs, op, L, R) ==
    IF ~(IsNumeric(L) /\ IsNumeric(R))
    THEN Thrown("Type Error: Operator requires numerical operands")
    ELSE IF op = <<"%">> THEN Modulo(lhs, rhs)
    ELSE ArithOn(lhs, rhs, op, asFloat(L), asFloat(R),
                 IF lhs.type = "float" \/ rhs.type = "float" THEN "float" ELSE "int")

\* Lines 385-428: - * / %.
ApplyArith(lhs, rhs, op) ==
    ArithCoerced(lhs, rhs, op, coerceToNumber(lhs), coerceToNumber(rhs))

\* Lines 343-355 on the float values l and r.
Relational(op, l, r) ==
    EvalResult(BoolText(IF op = <<"<">> THEN RatLt(l, r)
                        ELSE IF op = <<">">> THEN RatLt(r, l)
                        ELSE IF op = O_le THEN ~RatLt(r, l)
                        ELSE ~RatLt(l, r)), "bool")

\* Lines 330-341 once the operand types are known to be comparable.
Equality(lhs, rhs, op, same) ==
    EvalResult(BoolText(IF op = O_ne THEN ~same ELSE same), "bool")

applyBinaryOp(lhs, rhs, op) ==
    IF op = O_and \/ op = O_or
    THEN IF lhs.type # "bool" \/ rhs.type # "bool"
         THEN Thrown("Type Error: Operator requires boolean operands")
         ELSE EvalResult(BoolText(IF op = O_and
                                  THEN asBool(lhs) /\ asBool(rhs)
                                  ELSE asBool(lhs) \/ asBool(rhs)), "bool")
    ELSE IF op = O_eq \/ op = O_ne
    THEN IF (lhs.type = "string" /\ rhs.type = "string")
            \/ (lhs.type = "bool" /\ rhs.type = "bool")
            \/ (IsNumeric(lhs) /\ IsNumeric(rhs))
         THEN Equality(lhs, rhs, op,
                       IF lhs.type = "string" THEN asString(lhs) = asString(rhs)
                       ELSE IF lhs.type = "bool" THEN asBool(lhs) = asBool(rhs)
                       ELSE RatEq(asFloat(lhs), asFloat(rhs)))
         ELSE Thrown("Type Error: Cannot compare")
    ELSE IF op \in {<<"<">>, <<">">>, O_le, O_ge}
    THEN IF ~(IsNumeric(lhs) /\ IsNumeric(rhs))
         THEN Thrown("Type Error: Operator requires numerical operands")
         ELSE Relational(op, asFloat(lhs), asFloat(rhs))
    ELSE IF op = <<"+">> THEN ApplyPlus(lhs, rhs)
    ELSE ApplyArith(lhs, rhs, op)

----------------------------------------------------------------------------
(* Postfix evaluation and evaluate (src/evaluator.hpp:39-53, 274-305)       *)

\* evaluatePostfix from token i on; the value stack has its top last.  A
\* result of type "error" is the exception that left the function.
RECURSIVE PostfixFrom(_, _, _)

\* The rest of the loop after an operator has given result r, to be pushed
\* on the stack rest.
PostfixPush(postfix, i, rest, r) ==
    IF r.type \in {"error", "fault"} THEN r
    ELSE PostfixFrom(postfix, i + 1, Append(rest, r))

PostfixFrom(postfix, i, stack) ==
    IF i > Len(postfix)
    THEN IF Len(stack) # 1
         THEN Thrown("Syntax Error: Invalid expression")
         ELSE Last(stack)
    ELSE IF IsOperand(postfix[i])
    THEN PostfixFrom(postfix, i + 1,
                     Append(stack, EvalResult(postfix[i], getTokenType(postfix[i]))))
    ELSE IF postfix[i] = <<"!">>
    THEN IF stack = <<>>
         THEN Thrown("Syntax Error: Insufficient operands for '!'")
         ELSE PostfixPush(postfix, i, Front(stack), applyUnaryOp(Last(stack), postfix[i]))
    ELSE IF Len(stack) < 2
         THEN Thrown("Syntax Error: Insufficient operands")
         ELSE PostfixPush(postfix, i, SubSeq(stack, 1, Len(stack) - 2),
                          applyBinaryOp(stack[Len(stack) - 1], Last(stack), postfix[i]))

evaluatePostfix(postfix) == PostfixFrom(postfix, 1, <<>>)

\* Lines 45-48 on the outcome sy of shuntingYard.
EvaluateShunted(sy) ==
    IF sy.what # ""
    THEN [result |-> Thrown(sy.what), prec |-> sy.prec]
    ELSE [result |-> evaluatePostfix(sy.out), prec |-> sy.prec]

\* Lines 42-48 on the outcome t of tokenize.
EvaluateTokens(t, prec) ==
    IF t.what # ""
    THEN [result |-> Thrown(t.what), prec |-> prec]
    ELSE EvaluateShunted(shuntingYard(t.tokens, prec))

\* Evaluator::evaluate on an Evaluator whose precedence map is prec: the
\* EvalResult returned and the precedence map it leaves behind.
evaluate(e, prec) == EvaluateTokens(tokenize(e), prec)

----------------------------------------------------------------------------
(* The regular expressions of ExecutionEngine                               *)
(* (src/src/executionengine.hpp:87-123), matched as std::regex_match does:  *)
(* against the whole line.  Each matcher gives ok and the capture groups.   *)

T_STYLE == <<"S", "T", "Y", "L", "E">>
T_END == <<"E", "N", "D">>
T_GOTO == <<"G", "O", "T", "O">>
T_end == <<"e", "n", "d">>
T_return == <<"r", "e", "t", "u", "r", "n">>
T_func == <<"f", "u", "n", "c">>
T_if == <<"i", "f">>
T_var == <<"v", "a", "r">>
T_print == <<"p", "r", "i", "n", "t">>
T_println == <<"p", "r", "i", "n", "t", "l", "n">>
T_input == <<"i", "n", "p", "u", "t">>
T_brackets == <<"b", "r", "a", "c", "k", "e", "t", "s">>
T_else == <<"e", "l", "s", "e">>
T_while == <<"w", "h", "i", "l", "e">>
T_import == <<"i", "m", "p", "o", "r", "t">>
T_number == <<"n", "u", "m", "b", "e", "r">>

IdentStart == Alpha \cup {"_"}
IdentChar == Alnum \cup {"_"}
NoMatch == [ok |-> FALSE, g1 |-> <<>>, g2 |-> <<>>]
Match(a, b) == [ok |-> TRUE, g1 |-> a, g2 |-> b]

\* Index of the last character of s at or before i that is not white space.
RECURSIVE LastNonSpace(_, _)
LastNonSpace(s, i) ==
    IF i >= 1 /\ s[i] \in Space THEN LastNonSpace(s, i - 1) ELSE i

At(s, i) == IF i >= 1 /\ i <= Len(s) THEN s[i] ELSE ""

Contains(s, w) == \E i \in 1..Len(s) : StartsAt(s, i, w)

\* ^\s*WORD\s*$
MatchWordOnly(line, w) ==
    LET a == RunEnd(line, 1, Space)
    IN  StartsAt(line, a, w) /\ RunEnd(line, a + Len(w), Space) = Len(line) + 1

\* styleRegex  ^\s*STYLE\s*=\s*([a-z]+)\s*$
MatchStyle(line) ==
    LET a == RunEnd(line, 1, Space)
        b == RunEnd(line, a + 5, Space)
        c == RunEnd(line, b + 1, Space)
        d == RunEnd(line, c, Lower)
    IN  IF /\ StartsAt(line, a, T_STYLE)
           /\ At(line, b) = "="
           /\ d > c
           /\ RunEnd(line, d, Space) = Len(line) + 1
        THEN Match(SubSeq(line, c, d - 1), <<>>)
        ELSE NoMatch

\* endRegex  ^\s*END\s*$
MatchEnd(line) == MatchWordOnly(line, T_END)

\* ^\s*$  (line 213)
MatchBlank(line) == RunEnd(line, 1, Space) = Len(line) + 1

\* closeBlockRegex  ^\s*end\s*$  or  ^\s*\}\s*$
MatchCloseBlock(line, st) ==
    IF st = "brackets" THEN MatchWordOnly(line, <<"}">>)
    ELSE MatchWordOnly(line, T_end)

\* returnRegex  ^\s*return\s*;?\s*$
MatchReturn(line) ==
    LET a == RunEnd(line, 1, Space)
        b == RunEnd(line, a + 6, Space)
        c == IF At(line, b) = ";" THEN b + 1 ELSE b
    IN  StartsAt(line, a, T_return) /\ RunEnd(line, c, Space) = Len(line) + 1

\* funcCallRegex  ^\s*([a-zA-Z_][a-zA-Z0-9_]*)\s*\((.*?)\)\s*$
MatchFuncCall(line) ==
    LET a == RunEnd(line, 1, Space)
        b == RunEnd(line, a + 1, IdentChar)
        c == RunEnd(line, b, Space)
        k == LastNonSpace(line, Len(line))
    IN  IF /\ At(line, a) \in IdentStart
           /\ At(line, c) = "("
           /\ At(line, k) = ")"
           /\ k > c
        THEN Match(SubSeq(line, a, b - 1), SubSeq(line, c + 1, k - 1))
        ELSE NoMatch

\* funcDefRegex  ^\s*func\s+([a-zA-Z_][a-zA-Z0-9_]*)\s*\((.*?)\)\s*$
\*           or  ^\s*func\s+([a-zA-Z_][a-zA-Z0-9_]*)\s*\((.*?)\)\s*\{\s*$
MatchFuncDef(line, st) ==
    LET a == RunEnd(line, 1, Space)
        b == RunEnd(line, a + 4, Space)
        c == RunEnd(line, b + 1, IdentChar)
        d == RunEnd(line, c, Space)
        e == LastNonSpace(line, Len(line))
        k == IF st = "brackets" THEN LastNonSpace(line, e - 1) ELSE e
    IN  IF /\ StartsAt(line, a, T_func)
           /\ b > a + 4
           /\ At(line, b) \in IdentStart
           /\ At(line, d) = "("
           /\ (st = "brackets" => At(line, e) = "{")
           /\ At(line, k) = ")"
           /\ k > d
        THEN Match(SubSeq(line, b, c - 1), SubSeq(line, d + 1, k - 1))
        ELSE NoMatch

\* gotoRegex  ^\s*GOTO\s+(\d+)\s*$
MatchGoto(line) ==
    LET a == RunEnd(line, 1, Space)
        b == RunEnd(line, a + 4, Space)
        c == RunEnd(line, b, Digit)
    IN  IF /\ StartsAt(line, a, T_GOTO)
           /\ b > a + 4
           /\ c > b
           /\ RunEnd(line, c, Space) = Len(line) + 1
        THEN Match(SubSeq(line, b, c - 1), <<>>)
        ELSE NoMatch

\* ifRegex  ^\s*if\s+(.*)\s*$  or  ^\s*if\s+(.*)\s*\{\s*$
MatchIf(line, st) ==
    LET a == RunEnd(line, 1, Space)
        b == RunEnd(line, a + 2, Space)
        k == LastNonSpace(line, Len(line))
    IN  IF StartsAt(line, a, T_if) /\ b > a + 2
        THEN IF st = "brackets"
             THEN IF At(line, k) = "{" /\ k >= b
                  THEN Match(SubSeq(line, b, k - 1), <<>>)
                  ELSE NoMatch
             ELSE Match(SubSeq(line, b, Len(line)), <<>>)
        ELSE NoMatch

\* declarationRegex  ^\s*var\s+([a-zA-Z_]\w*)\s*=\s*(.*)
MatchDeclaration(line) ==
    LET a == RunEnd(line, 1, Space)
        b == RunEnd(line, a + 3, Space)
        c == RunEnd(line, b + 1, IdentChar)
        d == RunEnd(line, c, Space)
        e == RunEnd(line, d + 1, Space)
    IN  IF /\ StartsAt(line, a, T_var)
           /\ b > a + 3
           /\ At(line, b) \in IdentStart
           /\ At(line, d) = "="
        THEN Match(SubSeq(line, b, c - 1), SubSeq(line, e, Len(line)))
        ELSE NoMatch

\* assignmentRegex  ^\s*([a-zA-Z_]\w*)\s*=\s*(.*)
MatchAssignment(line) ==
    LET a == RunEnd(line, 1, Space)
        b == RunEnd(line, a + 1, IdentChar)
        c == RunEnd(line, b, Space)
        d == RunEnd(line, c + 1, Space)
    IN  IF At(line, a) \in IdentStart /\ At(line, c) = "="
        THEN Match(SubSeq(line, a, b - 1), SubSeq(line, d, Len(line)))
        ELSE NoMatch

\* printRegex  ^\s*print\s+(.*)   and   printlnRegex  ^\s*println\s+(.*)
MatchKeywordExpr(line, w) ==
    LET a == RunEnd(line, 1, Space)
        b == RunEnd(line, a + Len(w), Space)
    IN  IF StartsAt(line, a, w) /\ b > a + Len(w)
        THEN Match(SubSeq(line, b, Len(line)), <<>>)
        ELSE NoMatch

MatchPrint(line) ==
    IF MatchKeywordExpr(line, T_print).ok THEN MatchKeywordExpr(line, T_print)
    ELSE MatchKeywordExpr(line, T_println)

----------------------------------------------------------------------------
(* Helpers (src/src/helpers.hpp, src/src/executionengine.hpp:50-64)         *)

\* Variable(name, scope): value "", type "undefined" (src/src/variable.hpp:18).
NewVariable(scope) == [value |-> <<>>, type |-> "undefined", scopeLevel |-> scope]

\* Variable::asString (src/src/variable.hpp:43-49).
VarAsString(v) ==
    IF v.type = "string" /\ Len(v.value) >= 2 /\ v.value[1] = QUOTE
    THEN SubSeq(v.value, 2, Len(v.value) - 1)
    ELSE v.value

\* One segment of splitAndTrimArgs with the blanks at both ends removed
\* (find_first_not_of(' ') / find_last_not_of(' ')).
RECURSIVE LastNonBlank(_, _)
LastNonBlank(s, i) == IF i >= 1 /\ s[i] = " " THEN LastNonBlank(s, i - 1) ELSE i

TrimBlanks(seg) ==
    SubSeq(seg, RunEnd(seg, 1, {" "}), LastNonBlank(seg, Len(seg)))

\* splitAndTrimArgs from index i on: split at ',', trim, skip blank segments.
RECURSIVE SplitFrom(_, _, _)
SplitFrom(s, i, args) ==
    IF i > Len(s) THEN args
    ELSE LET j == FindChar(s, i, ",")
             seg == TrimBlanks(SubSeq(s, i, j - 1))
         IN  SplitFrom(s, j + 1, IF seg = <<>> THEN args ELSE Append(args, seg))

splitAndTrimArgs(paramsString) == SplitFrom(paramsString, 1, <<>>)

ReservedWords ==
    {T_true, T_false, T_var, T_print, T_println, T_input, T_func, T_return,
     T_if, T_else, T_while, T_import, T_END, T_GOTO, T_end, T_STYLE}

isVariableName(token) ==
    /\ token # <<>>
    /\ token[1] \in IdentStart
    /\ token \notin ReservedWords
    /\ \A i \in 1..Len(token) : token[i] \in IdentChar

\* What findAndReplaceVariables appends for a finished token outside quotes.
TokenText(tok, varsMap) ==
    IF tok = <<>> THEN <<>>
    ELSE IF isVariableName(tok)
         THEN (IF tok \in DOMAIN varsMap THEN varsMap[tok].value ELSE <<"0">>)
         ELSE tok

\* findAndReplaceVariables from index i on; out is substitutedLine, tok is
\* currentToken, inStr is inStringLiteral.
RECURSIVE ReplaceFrom(_, _, _, _, _, _)
ReplaceFrom(line, i, out, tok, inStr, varsMap) ==
    IF i > Len(line) THEN out \o TokenText(tok, varsMap)
    ELSE LET c == line[i] IN
      IF inStr /\ c = "$" /\ At(line, i + 1) = "{"
      THEN LET j == FindChar(line, i + 2, "}")
               varName == SubSeq(line, i + 2, j - 1)
           IN  IF j > Len(line)
               THEN (out \o <<"$", "{">> \o varName) \o TokenText(tok, varsMap)
               ELSE ReplaceFrom(line, j + 1,
                        out \o (IF varName \in DOMAIN varsMap
                                THEN (IF varsMap[varName].type = "string"
                                      THEN VarAsString(varsMap[varName])
                                      ELSE varsMap[varName].value)
                                ELSE <<"0">>),
                        tok, inStr, varsMap)
      ELSE LET nowIn == IF c = QUOTE THEN ~inStr ELSE inStr IN
        IF nowIn THEN ReplaceFrom(line, i + 1, Append(out, c), tok, nowIn, varsMap)
        ELSE IF c \in IdentChar
        THEN ReplaceFrom(line, i + 1, out, Append(tok, c), nowIn, varsMap)
        ELSE ReplaceFrom(line, i + 1, Append(out \o TokenText(tok, varsMap), c),
                         <<>>, nowIn, varsMap)

findAndReplaceVariables(line, varsMap) == ReplaceFrom(line, 1, <<>>, <<>>, FALSE, varsMap)

\* First index >= pos at which word w starts in s (0 if none): std::string::find.
RECURSIVE Find(_, _, _)
Find(s, w, pos) ==
    IF pos + Len(w) - 1 > Len(s) THEN 0
    ELSE IF StartsAt(s, pos, w) THEN pos
    ELSE Find(s, w, pos + 1)

\* handleInputCall from search position pos on.  u is the line read from
\* standard input; every occurrence replaced in one statement gets the same u.
RECURSIVE InputFrom(_, _, _)
InputFrom(line, pos, u) ==
    LET f == Find(line, T_input, pos)
    IN  IF f = 0 THEN line
        ELSE LET insideQuotes ==
                     Cardinality({i \in 1..(f - 1) : line[i] = QUOTE}) % 2 = 1
                 isFullWord ==
                     /\ (f = 1 \/ line[f - 1] \notin IdentChar)
                     /\ (f + 5 = Len(line) + 1 \/ line[f + 5] \notin IdentChar)
                 replacement == <<QUOTE>> \o u \o <<QUOTE>>
             IN  IF insideQuotes \/ ~isFullWord
                 THEN InputFrom(line, f + 5, u)
                 ELSE InputFrom(SubSeq(line, 1, f - 1) \o replacement
                                    \o SubSeq(line, f + 5, Len(line)),
                                f + Len(replacement), u)

handleInputCall(line, u) == InputFrom(line, 1, u)

----------------------------------------------------------------------------
(* Block matching (src/src/executionengine.hpp:460-517)                     *)

\* The character loop of lines 478-489 over one line.
RECURSIVE BraceScan(_, _, _)
BraceScan(line, i, level) ==
    IF i > Len(line) THEN [level |-> level, hit |-> FALSE]
    ELSE IF line[i] = "{" THEN BraceScan(line, i + 1, level + 1)
    ELSE IF line[i] = "}"
         THEN (IF level - 1 = 0 THEN [level |-> 0, hit |-> TRUE]
               ELSE BraceScan(line, i + 1, level - 1))
    ELSE BraceScan(line, i + 1, level)

\* The while loop of lines 475-512 from line cur on; -1 when getline fails.
RECURSIVE ScanBlock(_, _, _, _)
ScanBlock(lst, st, cur, level) ==
    IF cur > Len(lst) THEN -1
    ELSE IF st = "brackets"
    THEN LET r == BraceScan(lst[cur], 1, level)
         IN  IF r.hit THEN cur ELSE ScanBlock(lst, st, cur + 1, r.level)
    ELSE IF MatchFuncDef(lst[cur], st).ok \/ MatchIf(lst[cur], st).ok
    THEN ScanBlock(lst, st, cur + 1, level + 1)
    ELSE IF MatchCloseBlock(lst[cur], st)
    THEN (IF level - 1 = 0 THEN cur ELSE ScanBlock(lst, st, cur + 1, level - 1))
    ELSE ScanBlock(lst, st, cur + 1, level)

\* buildLineMap (lines 19-47) records a position for every line 1..Len(lst).
\* The position of line n is computed from file.tellg() after the line was
\* read.  For a last line without a newline the read meets the end of the
\* file, tellg() gives -1 and the recorded position is negative: a seekg to
\* it fails and every later getline on that stream fails.  lineMap[1] is set
\* to 0 whatever tellg() gave.
SeekSucceeds(lst, n) == n = 1 \/ n < Len(lst) \/ finalNewline

\* findBlockEnd(startLine) on listing lst in block style st.
findBlockEnd(lst, st, startLine) ==
    IF startLine \in 1..Len(lst) /\ SeekSucceeds(lst, startLine)
    THEN ScanBlock(lst, st, startLine, 1)
    ELSE -1

----------------------------------------------------------------------------
(* ExecutionEngine state and its small methods                              *)
(* (src/src/executionengine.hpp:66-171, 449-458)                            *)

\* Bounds of the model: runs are cut off beyond them.
MaxScopeLevel == 3
MaxReturnStack == 3

\* The engine (and its Evaluator member) as one record, so that a handler is
\* the composition of the methods it calls.
Cur ==
    [filePos |-> filePos, programCounter |-> programCounter,
     scopeLevel |-> scopeLevel, functionDepth |-> functionDepth,
     returnStack |-> returnStack, variables |-> variables,
     functions |-> functions, style |-> style, status |-> status,
     stderrLog |-> stderrLog, stdoutLog |-> stdoutLog, lastLine |-> lastLine,
     precedence |-> precedence]

\* std::getline(file, line) at the head of the loop (line 177): the stream
\* moves to the next line; programCounter is not touched.
AfterGetline ==
    [Cur EXCEPT !.filePos = filePos + 1, !.lastLine = filePos,
                !.stderrLog = <<>>, !.stdoutLog = <<>>]

Err(st, kind) == [st EXCEPT !.stderrLog = Append(@, kind)]

\* A programCounter++ that does not count: a deviation from line 444 that
\* the properties of the undefined call must tell apart.
NoAdvance(st) == st

\* programCounter++
Advance(st) == [st EXCEPT !.programCounter = @ + 1]

\* jumpToLine: fileLineMap holds the lines 1..Len(listing); any other target
\* ends the process with std::exit(EXIT_FAILURE).  After a seekg that fails
\* the stream gives no further line: the next getline ends run().
jumpToLine(st, targetLine) ==
    IF targetLine \in 1..Len(listing)
    THEN [st EXCEPT !.filePos = IF SeekSucceeds(listing, targetLine)
                                THEN targetLine ELSE Len(listing) + 1,
                    !.programCounter = targetLine]
    ELSE [st EXCEPT !.status = IF @ = "fault" THEN @ ELSE "exit_failure"]

\* A removeVariablesByScope that erases nothing: a deviation from lines
\* 149-158 that the properties of block scope must tell apart.
ErasesNothing(st) == st

\* A removeVariablesByScope with > for >=: a deviation from line 152 that
\* keeps the bindings of the scope that is left.
ErasesDeeperOnly(st) ==
    [st EXCEPT !.variables =
        [n \in {x \in DOMAIN st.variables : st.variables[x].scopeLevel <= st.scopeLevel}
            |-> st.variables[n]]]

removeVariablesByScope(st) ==
    [st EXCEPT !.variables =
        [n \in {x \in DOMAIN st.variables : st.variables[x].scopeLevel < st.scopeLevel}
            |-> st.variables[n]]]

incrementScope(st) == [st EXCEPT !.scopeLevel = @ + 1]

\* A decrementScope that leaves every open scope at once: a deviation from
\* lines 164-171 that the effect of a closer outside a function must tell
\* apart.
ClosesEveryScope(st) ==
    IF st.scopeLevel > 0
    THEN [removeVariablesByScope([st EXCEPT !.scopeLevel = 1]) EXCEPT !.scopeLevel = 0]
    ELSE [st EXCEPT !.stdoutLog = Append(@, "Warning: Attempted to decrement scope below 0.")]

decrementScope(st) ==
    IF st.scopeLevel > 0
    THEN [removeVariablesByScope(st) EXCEPT !.scopeLevel = @ - 1]
    ELSE [st EXCEPT !.stdoutLog = Append(@, "Warning: Attempted to decrement scope below 0.")]

\* A registerFunction that replaces an entry that already exists: a deviation
\* from the emplace of line 144 that the permanence of an entry must tell
\* apart.
Overwrites(st, name, parameters, startingLine) ==
    IF st.scopeLevel = 0
    THEN [st EXCEPT !.functions =
             (name :> [parameters |-> parameters, startingLine |-> startingLine]) @@ @]
    ELSE Err(st, "Error: Function declarations are only allowed in the global scope.")

\* registerFunction: std::map::emplace keeps an entry that already exists.
registerFunction(st, name, parameters, startingLine) ==
    IF st.scopeLevel = 0
    THEN IF name \in DOMAIN st.functions THEN st
         ELSE [st EXCEPT !.functions =
                  @ @@ (name :> [parameters |-> parameters, startingLine |-> startingLine])]
    ELSE Err(st, "Error: Function declarations are only allowed in the global scope.")

\* variables.emplace(name, Variable(name, scopeLevel))
EmplaceVariable(st, name) ==
    IF name \in DOMAIN st.variables THEN st
    ELSE [st EXCEPT !.variables = @ @@ (name :> NewVariable(st.scopeLevel))]

\* A setValue that stores nothing: a deviation from src/src/variable.hpp:21-24
\* that the effect of an assignment must tell apart.
KeepsValue(st, name, result) == st

\* variables.at(name).setValue(result)  (src/src/variable.hpp:21-24)
setValue(st, name, result) ==
    [st EXCEPT !.variables[name].value = result.value,
               !.variables[name].type = result.type]

\* The outcome ev of an evaluation in engine st: the result, and the engine
\* with the evaluator's precedence map updated.
\* An evaluation that traps kills the process.
Evaluated(st, ev) ==
    [result |-> ev.result,
     st |-> [st EXCEPT !.precedence = ev.prec,
                       !.status = IF ev.result.type = "fault" THEN "fault" ELSE @]]

\* eval.evaluate(findAndReplaceVariables(text, variables)).
EvalIn(st, text) ==
    Evaluated(st, evaluate(findAndReplaceVariables(text, st.variables), st.precedence))

----------------------------------------------------------------------------
(* The statement handlers of ExecutionEngine::run                           *)
(* (src/src/executionengine.hpp:173-446, 521-552)                           *)

\* A STYLE directive that selects nothing: a deviation from lines 181-188
\* that the effect of the directive must tell apart.
StyleIgnored(st, m) == Advance(st)

\* Lines 179-192.
HandleStyle(st, m) ==
    Advance(IF m.g1 = T_brackets THEN [st EXCEPT !.style = "brackets"]
            ELSE IF m.g1 = T_end THEN [st EXCEPT !.style = "end"]
            ELSE st)

\* Lines 207-210.
HandleEND(st) ==
    [st EXCEPT !.status = "ended",
               !.stdoutLog = Append(@, "Program execution terminated by END command.")]

\* Lines 228-236 and 257-265: the depth counters after the jump and the pop.
LeaveFunction(p) ==
    IF p.functionDepth > 0
    THEN [(IF p.functionDepth = 1 THEN decrementScope(p) ELSE p)
             EXCEPT !.functionDepth = @ - 1]
    ELSE p

\* Lines 223-225 and 252-254 with the outcome j of jumpToLine.
PopReturnAddress(j) ==
    IF j.status # "running" THEN j
    ELSE LeaveFunction([j EXCEPT !.returnStack = Front(@)])

\* Lines 221-237 and 250-266: return to the address on top of the stack.
ReturnFromCall(st) ==
    IF st.returnStack = <<>>
    THEN [Err(st, "Runtime Error") EXCEPT !.status = "runtime_abort"]
    ELSE PopReturnAddress(jumpToLine(st, Last(st.returnStack)))

\* Lines 219-246.
HandleCloseBlock(st) ==
    IF st.scopeLevel = 1 /\ st.functionDepth > 0 THEN ReturnFromCall(st)
    ELSE IF st.scopeLevel > 0 THEN Advance(decrementScope(st))
    ELSE Advance(Err(st, "Syntax Error"))

\* A bare return that is passed over like an unhandled line: a deviation from
\* lines 250-253 that the abort of a return without a call must tell apart.
ReturnIgnored(st) == Advance(st)

\* Lines 249-267.
HandleReturn(st) == ReturnFromCall(st)

\* Lines 281-289 after registerFunction gave engine r.
SkipFunctionBody(r, endLine) ==
    IF endLine # -1 THEN jumpToLine(r, endLine + 1)
    ELSE IF r.programCounter + 1 \in 1..Len(listing)
         THEN Err(r, "Syntax Error")
         ELSE r

\* Lines 275-289.
HandleFuncDef(st, m) ==
    SkipFunctionBody(registerFunction(st, m.g1, splitAndTrimArgs(m.g2), st.programCounter),
                     findBlockEnd(listing, st.style, st.programCounter + 1))

\* Lines 304-306: while (scopeLevel > 0) decrementScope().
RECURSIVE WipeScopes(_)
WipeScopes(st) == IF st.scopeLevel > 0 THEN WipeScopes(decrementScope(st)) ELSE st

\* Lines 331-342: bind parameter paramName to the evaluated argument ev.
BindOne(ev, paramName) ==
    IF paramName \notin DOMAIN ev.st.variables
    THEN IF ev.result.type # "error"
         THEN setValue(EmplaceVariable(ev.st, paramName), paramName, ev.result)
         ELSE Err(setValue(EmplaceVariable(ev.st, paramName), paramName,
                           EvalResult(T_number, "0")),
                  "Runtime Warning")
    ELSE Err(ev.st, "Runtime Error")

\* Lines 317-343, from parameter i on.
RECURSIVE BindParams(_, _, _, _)
BindParams(st, funcParams, callArgs, i) ==
    IF i > Len(funcParams) THEN st
    ELSE BindParams(BindOne(IF i <= Len(callArgs) /\ callArgs[i] # <<>>
                            THEN EvalIn(st, callArgs[i])
                            ELSE [result |-> [value |-> <<"0">>, type |-> "number"],
                                  st |-> st],
                            funcParams[i]),
                    funcParams, callArgs, i + 1)

\* A call that pushes the return address and leaves the depth as it is: a
\* deviation from line 308 that the equality of depth and stack length must
\* tell apart.
PushesAddressOnly(w, returnAddress) ==
    [incrementScope(w) EXCEPT !.returnStack = Append(@, returnAddress)]

\* Lines 307-313: the new scope, the depth and the return address.
EnterFunction(w, returnAddress) ==
    [incrementScope(w) EXCEPT !.functionDepth = @ + 1,
                              !.returnStack = Append(@, returnAddress)]

\* Lines 303-347: a call of a registered function.
HandleCall(st, m) ==
    jumpToLine(BindParams(EnterFunction(WipeScopes(st), st.programCounter + 1),
                          st.functions[m.g1].parameters, splitAndTrimArgs(m.g2), 1),
               st.functions[m.g1].startingLine + 1)

\* Lines 355-359.
HandleGoto(st, m) == jumpToLine(st, DigitsVal(m.g1))

\* A handleIfStatement that takes a condition in error for a false one: a
\* deviation from lines 533-536 that the effect of such a condition must
\* tell apart.
ErrorSkipsBlock(st, ev, blockEndLine) ==
    IF ev.result.type # "error" /\ asBool(ev.result)
    THEN Advance(incrementScope(ev.st))
    ELSE IF blockEndLine # -1 THEN jumpToLine(ev.st, blockEndLine + 1)
    ELSE Advance(ev.st)

\* handleIfStatement lines 525-551 with the evaluated condition ev.
IfOutcome(st, ev, blockEndLine) ==
    IF ev.result.type = "error" THEN Advance(Err(ev.st, "Runtime Error"))
    ELSE IF ~asBool(ev.result)
    THEN IF blockEndLine # -1 THEN jumpToLine(ev.st, blockEndLine + 1)
         ELSE IF st.programCounter + 1 \in 1..Len(listing)
              THEN Advance(Err(ev.st, "Syntax Error"))
              ELSE Advance(ev.st)
    ELSE Advance(incrementScope(ev.st))

\* handleIfStatement (lines 521-552) and lines 365-373.
HandleIf(st, m) ==
    IfOutcome(st, EvalIn(st, m.g1),
              findBlockEnd(listing, st.style, st.programCounter + 1))

\* Lines 388-397 and 412-421: store the result ev in variable name, or
\* report the evaluation error; then programCounter++.
StoreResult(ev, name) ==
    Advance(IF ev.result.type # "error"
            THEN setValue(ev.st, name, ev.result)
            ELSE Err(ev.st, "Runtime Error"))

\* Lines 376-399.
HandleDeclaration(st, m) ==
    StoreResult(EvalIn(IF m.g1 \in DOMAIN st.variables
                       THEN Err(st, "Compilation Error")
                       ELSE EmplaceVariable(st, m.g1),
                       m.g2),
                m.g1)

\* Lines 401-422.  The Name error leaves by continue, without programCounter++.
HandleAssignment(st, m) ==
    IF m.g1 \notin DOMAIN st.variables THEN Err(st, "Name Error")
    ELSE StoreResult(EvalIn(st, m.g2), m.g1)

\* Lines 431-440 with the evaluated expression ev.
PrintResult(ev, isPrintln) ==
    Advance(IF ev.result.type # "error"
            THEN [ev.st EXCEPT !.stdoutLog =
                     @ \o asString(ev.result)
                       \o (IF isPrintln THEN <<"\n">> ELSE <<>>)]
            ELSE Err(ev.st, "Runtime Error"))

\* Lines 423-441; line is the statement after handleInputCall.
HandlePrint(st, m, line) == PrintResult(EvalIn(st, m.g1), Contains(line, T_println))

----------------------------------------------------------------------------
(* Script listings the engine is run on, as sequences of lines; the file's  *)
(* last line ends with a newline or not (finalNewline).                     *)

\* BEGIN LISTINGS
\* a live variable is declared again:
\*    1  var x = 1
\*    2  var x = 2
\*    3  println x
\*    4  x = 3 * 2
\*    5  print x
ProgRedeclare ==
    <<
       <<"v", "a", "r", " ", "x", " ", "=", " ", "1">>,
       <<"v", "a", "r", " ", "x", " ", "=", " ", "2">>,
       <<"p", "r", "i", "n", "t", "l", "n", " ", "x">>,
       <<"x", " ", "=", " ", "3", " ", "*", " ", "2">>,
       <<"p", "r", "i", "n", "t", " ", "x">> >>

\* the second declaration's expression is an error:
\*    1  var x = 1
\*    2  var x = true && 1
\*    3  println x
ProgRedeclareError ==
    <<
       <<"v", "a", "r", " ", "x", " ", "=", " ", "1">>,
       <<"v", "a", "r", " ", "x", " ", "=", " ", "t", "r", "u", "e", " ", "&", "&", " ", "1">>,
       <<"p", "r", "i", "n", "t", "l", "n", " ", "x">> >>

\* a false if with a nested block inside its body:
\*    1  var c = false
\*    2  if c
\*    3  println 1
\*    4  if true
\*    5  println 2
\*    6  end
\*    7  end
\*    8  println 3
ProgIfFalse ==
    <<
       <<"v", "a", "r", " ", "c", " ", "=", " ", "f", "a", "l", "s", "e">>,
       <<"i", "f", " ", "c">>,
       <<"p", "r", "i", "n", "t", "l", "n", " ", "1">>,
       <<"i", "f", " ", "t", "r", "u", "e">>,
       <<"p", "r", "i", "n", "t", "l", "n", " ", "2">>,
       <<"e", "n", "d">>,
       <<"e", "n", "d">>,
       <<"p", "r", "i", "n", "t", "l", "n", " ", "3">> >>

\* a false if whose closer is the last line:
\*    1  if false
\*    2  println 1
\*    3  end
ProgIfFalseLast ==
    <<
       <<"i", "f", " ", "f", "a", "l", "s", "e">>,
       <<"p", "r", "i", "n", "t", "l", "n", " ", "1">>,
       <<"e", "n", "d">> >>

\* a false if after an assignment to an undeclared name:
\*    1  y = 1
\*    2  if false
\*    3  println 1
\*    4  end
\*    5  println 2
ProgIfAfterNameError ==
    <<
       <<"y", " ", "=", " ", "1">>,
       <<"i", "f", " ", "f", "a", "l", "s", "e">>,
       <<"p", "r", "i", "n", "t", "l", "n", " ", "1">>,
       <<"e", "n", "d">>,
       <<"p", "r", "i", "n", "t", "l", "n", " ", "2">> >>

\* nested true ifs, a stray closer at the end:
\*    1  var a = 1
\*    2  if true
\*    3  var b = 2
\*    4  if a == 1
\*    5  var c = 3
\*    6  a = 4
\*    7  end
\*    8  var a = 9
\*    9  end
\*   10  println a
\*   11  end
ProgIfTrue ==
    <<
       <<"v", "a", "r", " ", "a", " ", "=", " ", "1">>,
       <<"i", "f", " ", "t", "r", "u", "e">>,
       <<"v", "a", "r", " ", "b", " ", "=", " ", "2">>,
       <<"i", "f", " ", "a", " ", "=", "=", " ", "1">>,
       <<"v", "a", "r", " ", "c", " ", "=", " ", "3">>,
       <<"a", " ", "=", " ", "4">>,
       <<"e", "n", "d">>,
       <<"v", "a", "r", " ", "a", " ", "=", " ", "9">>,
       <<"e", "n", "d">>,
       <<"p", "r", "i", "n", "t", "l", "n", " ", "a">>,
       <<"e", "n", "d">> >>

\* bracketed style, comment, blank line, END:
\*    1  STYLE = brackets
\*    2  # comment
\*    3  
\*    4  var a = 1
\*    5  if a < 2 {
\*    6  var b = 2
\*    7  }
\*    8  func f(p) {
\*    9  println p
\*   10  }
\*   11  f(a)
\*   12  END
ProgBrackets ==
    <<
       <<"S", "T", "Y", "L", "E", " ", "=", " ", "b", "r", "a", "c", "k", "e", "t", "s">>,
       <<"#", " ", "c", "o", "m", "m", "e", "n", "t">>,
       <<>>,
       <<"v", "a", "r", " ", "a", " ", "=", " ", "1">>,
       <<"i", "f", " ", "a", " ", "<", " ", "2", " ", "{">>,
       <<"v", "a", "r", " ", "b", " ", "=", " ", "2">>,
       <<"}">>,
       <<"f", "u", "n", "c", " ", "f", "(", "p", ")", " ", "{">>,
       <<"p", "r", "i", "n", "t", "l", "n", " ", "p">>,
       <<"}">>,
       <<"f", "(", "a", ")">>,
       <<"E", "N", "D">> >>

\* a bare return inside a true if of the body:
\*    1  func f(p)
\*    2  if true
\*    3  return
\*    4  end
\*    5  println p
\*    6  end
\*    7  f(1)
\*    8  println p
\*    9  END
ProgReturnInIf ==
    <<
       <<"f", "u", "n", "c", " ", "f", "(", "p", ")">>,
       <<"i", "f", " ", "t", "r", "u", "e">>,
       <<"r", "e", "t", "u", "r", "n">>,
       <<"e", "n", "d">>,
       <<"p", "r", "i", "n", "t", "l", "n", " ", "p">>,
       <<"e", "n", "d">>,
       <<"f", "(", "1", ")">>,
       <<"p", "r", "i", "n", "t", "l", "n", " ", "p">>,
       <<"E", "N", "D">> >>

\* a bare return at the top level of the body:
\*    1  func f(p)
\*    2  return
\*    3  end
\*    4  f(2)
\*    5  println 0
ProgReturnTop ==
    <<
       <<"f", "u", "n", "c", " ", "f", "(", "p", ")">>,
       <<"r", "e", "t", "u", "r", "n">>,
       <<"e", "n", "d">>,
       <<"f", "(", "2", ")">>,
       <<"p", "r", "i", "n", "t", "l", "n", " ", "0">> >>

\* a GOTO from inside an if of the body to the body's closer:
\*    1  func f()
\*    2  if true
\*    3  GOTO 5
\*    4  end
\*    5  end
\*    6  f()
\*    7  END
ProgGotoOutOfIf ==
    <<
       <<"f", "u", "n", "c", " ", "f", "(", ")">>,
       <<"i", "f", " ", "t", "r", "u", "e">>,
       <<"G", "O", "T", "O", " ", "5">>,
       <<"e", "n", "d">>,
       <<"e", "n", "d">>,
       <<"f", "(", ")">>,
       <<"E", "N", "D">> >>

\* f calls g:
\*    1  func g()
\*    2  println 2
\*    3  end
\*    4  func f(a)
\*    5  g()
\*    6  println a
\*    7  end
\*    8  f(1)
\*    9  println 0
ProgNested ==
    <<
       <<"f", "u", "n", "c", " ", "g", "(", ")">>,
       <<"p", "r", "i", "n", "t", "l", "n", " ", "2">>,
       <<"e", "n", "d">>,
       <<"f", "u", "n", "c", " ", "f", "(", "a", ")">>,
       <<"g", "(", ")">>,
       <<"p", "r", "i", "n", "t", "l", "n", " ", "a">>,
       <<"e", "n", "d">>,
       <<"f", "(", "1", ")">>,
       <<"p", "r", "i", "n", "t", "l", "n", " ", "0">> >>

\* a call after an assignment to an undeclared name:
\*    1  func f()
\*    2  println 1
\*    3  end
\*    4  y = 1
\*    5  f()
\*    6  println 0
ProgCallAfterNameError ==
    <<
       <<"f", "u", "n", "c", " ", "f", "(", ")">>,
       <<"p", "r", "i", "n", "t", "l", "n", " ", "1">>,
       <<"e", "n", "d">>,
       <<"y", " ", "=", " ", "1">>,
       <<"f", "(", ")">>,
       <<"p", "r", "i", "n", "t", "l", "n", " ", "0">> >>

\* a call from inside a true if with a local as argument:
\*    1  func f(p, q)
\*    2  println p
\*    3  end
\*    4  if true
\*    5  var a = 5
\*    6  f(a, 2)
\*    7  end
ProgArgsLocal ==
    <<
       <<"f", "u", "n", "c", " ", "f", "(", "p", ",", " ", "q", ")">>,
       <<"p", "r", "i", "n", "t", "l", "n", " ", "p">>,
       <<"e", "n", "d">>,
       <<"i", "f", " ", "t", "r", "u", "e">>,
       <<"v", "a", "r", " ", "a", " ", "=", " ", "5">>,
       <<"f", "(", "a", ",", " ", "2", ")">>,
       <<"e", "n", "d">> >>

\* a call with a global as argument and a missing argument:
\*    1  var a = 5
\*    2  func f(p, q, r)
\*    3  println q
\*    4  end
\*    5  f(a, 2)
\*    6  println 1
ProgArgsGlobal ==
    <<
       <<"v", "a", "r", " ", "a", " ", "=", " ", "5">>,
       <<"f", "u", "n", "c", " ", "f", "(", "p", ",", " ", "q", ",", " ", "r", ")">>,
       <<"p", "r", "i", "n", "t", "l", "n", " ", "q">>,
       <<"e", "n", "d">>,
       <<"f", "(", "a", ",", " ", "2", ")">>,
       <<"p", "r", "i", "n", "t", "l", "n", " ", "1">> >>

\* calls of undefined functions at several depths:
\*    1  nofunc(1)
\*    2  println 1
\*    3  func f()
\*    4  nofunc()
\*    5  end
\*    6  f()
\*    7  if true
\*    8  nofunc(2)
\*    9  end
\*   10  println 2
ProgUndefined ==
    <<
       <<"n", "o", "f", "u", "n", "c", "(", "1", ")">>,
       <<"p", "r", "i", "n", "t", "l", "n", " ", "1">>,
       <<"f", "u", "n", "c", " ", "f", "(", ")">>,
       <<"n", "o", "f", "u", "n", "c", "(", ")">>,
       <<"e", "n", "d">>,
       <<"f", "(", ")">>,
       <<"i", "f", " ", "t", "r", "u", "e">>,
       <<"n", "o", "f", "u", "n", "c", "(", "2", ")">>,
       <<"e", "n", "d">>,
       <<"p", "r", "i", "n", "t", "l", "n", " ", "2">> >>

\* a bare return outside any call:
\*    1  return
\*    2  println 1
ProgBareReturn ==
    <<
       <<"r", "e", "t", "u", "r", "n">>,
       <<"p", "r", "i", "n", "t", "l", "n", " ", "1">> >>

\* a GOTO forward and a GOTO to a line that is not in the listing:
\*    1  var i = 1
\*    2  GOTO 4
\*    3  println 0
\*    4  println i
\*    5  GOTO 9
ProgGoto ==
    <<
       <<"v", "a", "r", " ", "i", " ", "=", " ", "1">>,
       <<"G", "O", "T", "O", " ", "4">>,
       <<"p", "r", "i", "n", "t", "l", "n", " ", "0">>,
       <<"p", "r", "i", "n", "t", "l", "n", " ", "i">>,
       <<"G", "O", "T", "O", " ", "9">> >>

\* the input built-in, an unhandled line, a reserved name used as a call:
\*    1  var s = input
\*    2  println s
\*    3  hello world
\*    4  print (1)
\*    5  print 2
ProgInput ==
    <<
       <<"v", "a", "r", " ", "s", " ", "=", " ", "i", "n", "p", "u", "t">>,
       <<"p", "r", "i", "n", "t", "l", "n", " ", "s">>,
       <<"h", "e", "l", "l", "o", " ", "w", "o", "r", "l", "d">>,
       <<"p", "r", "i", "n", "t", " ", "(", "1", ")">>,
       <<"p", "r", "i", "n", "t", " ", "2">> >>

\* a GOTO to the last line:
\*    1  var i = 1
\*    2  GOTO 4
\*    3  println 0
\*    4  println i
ProgGotoLast ==
    <<
       <<"v", "a", "r", " ", "i", " ", "=", " ", "1">>,
       <<"G", "O", "T", "O", " ", "4">>,
       <<"p", "r", "i", "n", "t", "l", "n", " ", "0">>,
       <<"p", "r", "i", "n", "t", "l", "n", " ", "i">> >>

\* a function declared inside a true if:
\*    1  if true
\*    2  func f()
\*    3  println 1
\*    4  end
\*    5  end
\*    6  f()
\*    7  println 2
ProgFuncInIf ==
    <<
       <<"i", "f", " ", "t", "r", "u", "e">>,
       <<"f", "u", "n", "c", " ", "f", "(", ")">>,
       <<"p", "r", "i", "n", "t", "l", "n", " ", "1">>,
       <<"e", "n", "d">>,
       <<"e", "n", "d">>,
       <<"f", "(", ")">>,
       <<"p", "r", "i", "n", "t", "l", "n", " ", "2">> >>

\* a function whose body closes on the last line:
\*    1  println 1
\*    2  func f()
\*    3  println 2
\*    4  end
ProgFuncLast ==
    <<
       <<"p", "r", "i", "n", "t", "l", "n", " ", "1">>,
       <<"f", "u", "n", "c", " ", "f", "(", ")">>,
       <<"p", "r", "i", "n", "t", "l", "n", " ", "2">>,
       <<"e", "n", "d">> >>

\* a call on the last line:
\*    1  func f()
\*    2  println 1
\*    3  end
\*    4  f()
ProgCallLast ==
    <<
       <<"f", "u", "n", "c", " ", "f", "(", ")">>,
       <<"p", "r", "i", "n", "t", "l", "n", " ", "1">>,
       <<"e", "n", "d">>,
       <<"f", "(", ")">> >>

\* assignments: to a live name, with an error, to a name that is not live:
\*    1  var x = 1
\*    2  var y = 2
\*    3  x = y * 3
\*    4  x = 1 + 1
\*    5  println x
\*    6  z = 5
\*    7  println y
ProgAssign ==
    <<
       <<"v", "a", "r", " ", "x", " ", "=", " ", "1">>,
       <<"v", "a", "r", " ", "y", " ", "=", " ", "2">>,
       <<"x", " ", "=", " ", "y", " ", "*", " ", "3">>,
       <<"x", " ", "=", " ", "1", " ", "+", " ", "1">>,
       <<"p", "r", "i", "n", "t", "l", "n", " ", "x">>,
       <<"z", " ", "=", " ", "5">>,
       <<"p", "r", "i", "n", "t", "l", "n", " ", "y">> >>

\* a remainder whose computation overflows long long:
\*    1  println 7 % 2
\*    2  println -9223372036854775808 % -1
\*    3  println 5
ProgModuloTrap ==
    <<
       <<"p", "r", "i", "n", "t", "l", "n", " ", "7", " ", "%", " ", "2">>,
       <<"p", "r", "i", "n", "t", "l", "n", " ", "-", "9", "2", "2", "3", "3", "7", "2", "0", "3", "6", "8", "5", "4", "7", "7", "5", "8", "0", "8", " ", "%", " ", "-", "1">>,
       <<"p", "r", "i", "n", "t", "l", "n", " ", "5">> >>

\* print and println of strings, numbers, an error, and of a string that contains println:
\*    1  print "a"
\*    2  println "b"
\*    3  print 1 * 2
\*    4  print true && 1
\*    5  print "println"
\*    6  println 3
ProgPrint ==
    <<
       <<"p", "r", "i", "n", "t", " ", "\"", "a", "\"">>,
       <<"p", "r", "i", "n", "t", "l", "n", " ", "\"", "b", "\"">>,
       <<"p", "r", "i", "n", "t", " ", "1", " ", "*", " ", "2">>,
       <<"p", "r", "i", "n", "t", " ", "t", "r", "u", "e", " ", "&", "&", " ", "1">>,
       <<"p", "r", "i", "n", "t", " ", "\"", "p", "r", "i", "n", "t", "l", "n", "\"">>,
       <<"p", "r", "i", "n", "t", "l", "n", " ", "3">> >>

\* a bare return inside a true if, outside any call:
\*    1  var a = 1
\*    2  if true
\*    3  var b = 2
\*    4  return
\*    5  end
\*    6  println a
ProgReturnInBlock ==
    <<
       <<"v", "a", "r", " ", "a", " ", "=", " ", "1">>,
       <<"i", "f", " ", "t", "r", "u", "e">>,
       <<"v", "a", "r", " ", "b", " ", "=", " ", "2">>,
       <<"r", "e", "t", "u", "r", "n">>,
       <<"e", "n", "d">>,
       <<"p", "r", "i", "n", "t", "l", "n", " ", "a">> >>

\* an if and prints whose expression is in parentheses:
\*    1  var c = true
\*    2  if (c)
\*    3  println 1
\*    4  end
\*    5  print (1 + 2)
\*    6  println 3
ProgParen ==
    <<
       <<"v", "a", "r", " ", "c", " ", "=", " ", "t", "r", "u", "e">>,
       <<"i", "f", " ", "(", "c", ")">>,
       <<"p", "r", "i", "n", "t", "l", "n", " ", "1">>,
       <<"e", "n", "d">>,
       <<"p", "r", "i", "n", "t", " ", "(", "1", " ", "+", " ", "2", ")">>,
       <<"p", "r", "i", "n", "t", "l", "n", " ", "3">> >>

\* a function declared twice, and both declarations executed again after a backward GOTO:
\*    1  var i = 1
\*    2  func f(a)
\*    3  println a
\*    4  end
\*    5  func f(a, b)
\*    6  println b
\*    7  end
\*    8  f(i, 7)
\*    9  i = i * 2
\*   10  if i > 2
\*   11  GOTO 14
\*   12  end
\*   13  GOTO 2
\*   14  println i
ProgRedeclareFunc ==
    <<
       <<"v", "a", "r", " ", "i", " ", "=", " ", "1">>,
       <<"f", "u", "n", "c", " ", "f", "(", "a", ")">>,
       <<"p", "r", "i", "n", "t", "l", "n", " ", "a">>,
       <<"e", "n", "d">>,
       <<"f", "u", "n", "c", " ", "f", "(", "a", ",", " ", "b", ")">>,
       <<"p", "r", "i", "n", "t", "l", "n", " ", "b">>,
       <<"e", "n", "d">>,
       <<"f", "(", "i", ",", " ", "7", ")">>,
       <<"i", " ", "=", " ", "i", " ", "*", " ", "2">>,
       <<"i", "f", " ", "i", " ", ">", " ", "2">>,
       <<"G", "O", "T", "O", " ", "1", "4">>,
       <<"e", "n", "d">>,
       <<"G", "O", "T", "O", " ", "2">>,
       <<"p", "r", "i", "n", "t", "l", "n", " ", "i">> >>

\* the block style switched to brackets and back, with headers and closers of both styles:
\*    1  STYLE = brackets
\*    2  if false {
\*    3  end
\*    4  println 1
\*    5  }
\*    6  if true {
\*    7  end
\*    8  }
\*    9  func g()
\*   10  STYLE = end
\*   11  if false
\*   12  }
\*   13  println 2
\*   14  end
\*   15  STYLE = other
\*   16  if true
\*   17  }
\*   18  println 3
\*   19  end
\*   20  func f() {
\*   21  println 4
ProgStyleSwitch ==
    <<
       <<"S", "T", "Y", "L", "E", " ", "=", " ", "b", "r", "a", "c", "k", "e", "t", "s">>,
       <<"i", "f", " ", "f", "a", "l", "s", "e", " ", "{">>,
       <<"e", "n", "d">>,
       <<"p", "r", "i", "n", "t", "l", "n", " ", "1">>,
       <<"}">>,
       <<"i", "f", " ", "t", "r", "u", "e", " ", "{">>,
       <<"e", "n", "d">>,
       <<"}">>,
       <<"f", "u", "n", "c", " ", "g", "(", ")">>,
       <<"S", "T", "Y", "L", "E", " ", "=", " ", "e", "n", "d">>,
       <<"i", "f", " ", "f", "a", "l", "s", "e">>,
       <<"}">>,
       <<"p", "r", "i", "n", "t", "l", "n", " ", "2">>,
       <<"e", "n", "d">>,
       <<"S", "T", "Y", "L", "E", " ", "=", " ", "o", "t", "h", "e", "r">>,
       <<"i", "f", " ", "t", "r", "u", "e">>,
       <<"}">>,
       <<"p", "r", "i", "n", "t", "l", "n", " ", "3">>,
       <<"e", "n", "d">>,
       <<"f", "u", "n", "c", " ", "f", "(", ")", " ", "{">>,
       <<"p", "r", "i", "n", "t", "l", "n", " ", "4">> >>

\* an if whose condition is a type error, inside a true if:
\*    1  var a = 1
\*    2  if true
\*    3  var b = 2
\*    4  if a && true
\*    5  println b
\*    6  end
\*    7  end
\*    8  println a
ProgIfError ==
    <<
       <<"v", "a", "r", " ", "a", " ", "=", " ", "1">>,
       <<"i", "f", " ", "t", "r", "u", "e">>,
       <<"v", "a", "r", " ", "b", " ", "=", " ", "2">>,
       <<"i", "f", " ", "a", " ", "&", "&", " ", "t", "r", "u", "e">>,
       <<"p", "r", "i", "n", "t", "l", "n", " ", "b">>,
       <<"e", "n", "d">>,
       <<"e", "n", "d">>,
       <<"p", "r", "i", "n", "t", "l", "n", " ", "a">> >>

\* a false if with an empty block whose closer is the last line:
\*    1  println 1
\*    2  if false
\*    3  end
ProgEmptyIfLast ==
    <<
       <<"p", "r", "i", "n", "t", "l", "n", " ", "1">>,
       <<"i", "f", " ", "f", "a", "l", "s", "e">>,
       <<"e", "n", "d">> >>

\* a false if whose block is not closed: the only closer belongs to a nested if:
\*    1  println 1
\*    2  if false
\*    3  println 2
\*    4  if true
\*    5  println 3
\*    6  end
ProgUnclosed ==
    <<
       <<"p", "r", "i", "n", "t", "l", "n", " ", "1">>,
       <<"i", "f", " ", "f", "a", "l", "s", "e">>,
       <<"p", "r", "i", "n", "t", "l", "n", " ", "2">>,
       <<"i", "f", " ", "t", "r", "u", "e">>,
       <<"p", "r", "i", "n", "t", "l", "n", " ", "3">>,
       <<"e", "n", "d">> >>

\* a declaration whose expression is an error, and a call whose argument is an error:
\*    1  var y = true && 1
\*    2  func f(p)
\*    3  println p * 2
\*    4  end
\*    5  f(true && 1)
\*    6  println 9
ProgArgError ==
    <<
       <<"v", "a", "r", " ", "y", " ", "=", " ", "t", "r", "u", "e", " ", "&", "&", " ", "1">>,
       <<"f", "u", "n", "c", " ", "f", "(", "p", ")">>,
       <<"p", "r", "i", "n", "t", "l", "n", " ", "p", " ", "*", " ", "2">>,
       <<"e", "n", "d">>,
       <<"f", "(", "t", "r", "u", "e", " ", "&", "&", " ", "1", ")">>,
       <<"p", "r", "i", "n", "t", "l", "n", " ", "9">> >>

\* a loop by a GOTO inside a true if that jumps back to the if line:
\*    1  var i = 1
\*    2  if i < 4
\*    3  i = i * 2
\*    4  GOTO 2
\*    5  end
\*    6  println i
ProgLoop ==
    <<
       <<"v", "a", "r", " ", "i", " ", "=", " ", "1">>,
       <<"i", "f", " ", "i", " ", "<", " ", "4">>,
       <<"i", " ", "=", " ", "i", " ", "*", " ", "2">>,
       <<"G", "O", "T", "O", " ", "2">>,
       <<"e", "n", "d">>,
       <<"p", "r", "i", "n", "t", "l", "n", " ", "i">> >>

\* f calls g, both with a parameter, and uses both parameters after g has returned:
\*    1  func g(b)
\*    2  println b
\*    3  end
\*    4  func f(a)
\*    5  g(2)
\*    6  println a
\*    7  println b
\*    8  end
\*    9  f(1)
\*   10  println 0
ProgNestedArgs ==
    <<
       <<"f", "u", "n", "c", " ", "g", "(", "b", ")">>,
       <<"p", "r", "i", "n", "t", "l", "n", " ", "b">>,
       <<"e", "n", "d">>,
       <<"f", "u", "n", "c", " ", "f", "(", "a", ")">>,
       <<"g", "(", "2", ")">>,
       <<"p", "r", "i", "n", "t", "l", "n", " ", "a">>,
       <<"p", "r", "i", "n", "t", "l", "n", " ", "b">>,
       <<"e", "n", "d">>,
       <<"f", "(", "1", ")">>,
       <<"p", "r", "i", "n", "t", "l", "n", " ", "0">> >>

Programs ==
    {ProgRedeclare,
     ProgRedeclareError,
     ProgIfFalse,
     ProgIfFalseLast,
     ProgIfAfterNameError,
     ProgIfTrue,
     ProgBrackets,
     ProgReturnInIf,
     ProgReturnTop,
     ProgGotoOutOfIf,
     ProgNested,
     ProgCallAfterNameError,
     ProgArgsLocal,
     ProgArgsGlobal,
     ProgUndefined,
     ProgBareReturn,
     ProgGoto,
     ProgInput,
     ProgGotoLast,
     ProgFuncInIf,
     ProgFuncLast,
     ProgCallLast,
     ProgAssign,
     ProgModuloTrap,
     ProgPrint,
     ProgReturnInBlock,
     ProgParen,
     ProgRedeclareFunc,
     ProgStyleSwitch,
     ProgIfError,
     ProgEmptyIfLast,
     ProgUnclosed,
     ProgArgError,
     ProgLoop,
     ProgNestedArgs}

\* END LISTINGS

\* Lines a user may type when the input built-in reads standard input.
UserInputs == {<<"7">>, <<"h", "i">>}

----------------------------------------------------------------------------
(* ExecutionEngine::run as a state machine: one step per line read          *)

\* Names the call branch leaves to other branches (lines 296-298).
ReservedCallNames ==
    {T_input, T_print, T_println, T_var, T_if, T_GOTO, T_return, T_END,
     T_STYLE, T_func, T_end, T_while}

Running == status = "running" /\ filePos \in 1..Len(listing)

CurLine == listing[filePos]

\* The branch of run() that handles the line, in the order the code tests
\* them: call is the match of funcCallRegex on the line, and inputLine the
\* line handleInputCall made of it, which the branches from the if statement
\* on work with.
KindOf(line, call, inputLine) ==
    IF MatchStyle(line).ok THEN "style"
    ELSE IF At(line, 1) = "#" THEN "comment"
    ELSE IF MatchEnd(line) THEN "END"
    ELSE IF MatchBlank(line) THEN "blank"
    ELSE IF MatchCloseBlock(line, style) THEN "close"
    ELSE IF MatchReturn(line) THEN "return"
    ELSE IF MatchFuncDef(line, style).ok THEN "funcdef"
    ELSE IF call.ok /\ call.g1 \in ReservedCallNames THEN "reserved"
    ELSE IF call.ok /\ call.g1 \in DOMAIN functions THEN "call"
    ELSE IF MatchGoto(line).ok THEN "goto"
    ELSE IF MatchIf(inputLine, style).ok THEN "if"
    ELSE IF MatchDeclaration(inputLine).ok THEN "decl"
    ELSE IF MatchAssignment(inputLine).ok THEN "assign"
    ELSE IF MatchPrint(inputLine).ok THEN "print"
    ELSE "other"

Kind(line, u) == KindOf(line, MatchFuncCall(line), handleInputCall(line, u))

\* Lines 349-351: the match call has a name that is neither reserved nor
\* registered.
UnknownName(call) ==
    /\ call.ok
    /\ call.g1 \notin ReservedCallNames
    /\ call.g1 \notin DOMAIN functions

\* The line has the form of a call of an unknown function.  Control then
\* falls through to the branches after the call branch.
IsUndefinedCall(line) == UnknownName(MatchFuncCall(line))

\* The engine when control reaches line 354.
AfterCallBranch ==
    IF IsUndefinedCall(CurLine) THEN Err(AfterGetline, "Name Error") ELSE AfterGetline

\* The step's result becomes the state.
Stepped(st) ==
    /\ filePos' = st.filePos
    /\ programCounter' = st.programCounter
    /\ scopeLevel' = st.scopeLevel
    /\ functionDepth' = st.functionDepth
    /\ returnStack' = st.returnStack
    /\ variables' = st.variables
    /\ functions' = st.functions
    /\ style' = st.style
    /\ status' = st.status
    /\ stderrLog' = st.stderrLog
    /\ stdoutLog' = st.stdoutLog
    /\ lastLine' = st.lastLine
    /\ precedence' = st.precedence
    /\ UNCHANGED <<listing, finalNewline, expression, evalResult, overflowTraps>>

\* A step in which an evaluation trapped leaves nothing but the dead process.
Become(st) ==
    IF st.status = "fault"
    THEN /\ status' = "fault"
         /\ UNCHANGED <<precedence, expression, evalResult, overflowTraps, listing,
                        finalNewline, filePos, programCounter, scopeLevel,
                        functionDepth, returnStack, variables, functions, style,
                        stderrLog, stdoutLog, lastLine>>
    ELSE Stepped(st)

\* History of the if blocks entered outside any function and not yet closed:
\* ifEntry records, innermost last, the scope depth and the variables at each
\* such if line.  It is observation only; no handler reads it.  A GOTO, a
\* call or a return makes the record void, and it is dropped.
OpenIfEntry ==
    ifEntry' = IF functionDepth = 0 /\ scopeLevel' = scopeLevel + 1
               THEN Append(ifEntry, [scopeLevel |-> scopeLevel, variables |-> variables])
               ELSE ifEntry

CloseIfEntry ==
    ifEntry' = IF functionDepth > 0 \/ ifEntry = <<>> THEN <<>> ELSE Front(ifEntry)

ForgetIfEntries == ifEntry' = <<>>

StyleDirective ==
    /\ Running
    /\ \E u \in UserInputs : Kind(CurLine, u) = "style"
    /\ Become(HandleStyle(AfterGetline, MatchStyle(CurLine)))
    /\ UNCHANGED ifEntry

Comment ==
    /\ Running
    /\ \E u \in UserInputs : Kind(CurLine, u) = "comment"
    /\ Become(Advance(AfterGetline))
    /\ UNCHANGED ifEntry

EndCommand ==
    /\ Running
    /\ \E u \in UserInputs : Kind(CurLine, u) = "END"
    /\ Become(HandleEND(AfterGetline))
    /\ UNCHANGED ifEntry

BlankLine ==
    /\ Running
    /\ \E u \in UserInputs : Kind(CurLine, u) = "blank"
    /\ Become(Advance(AfterGetline))
    /\ UNCHANGED ifEntry

CloseBlock ==
    /\ Running
    /\ \E u \in UserInputs : Kind(CurLine, u) = "close"
    /\ Become(HandleCloseBlock(AfterGetline))
    /\ CloseIfEntry

Return ==
    /\ Running
    /\ \E u \in UserInputs : Kind(CurLine, u) = "return"
    /\ Become(HandleReturn(AfterGetline))
    /\ ForgetIfEntries

FunctionDeclaration ==
    /\ Running
    /\ \E u \in UserInputs : Kind(CurLine, u) = "funcdef"
    /\ Become(HandleFuncDef(AfterGetline, MatchFuncDef(CurLine, style)))
    /\ UNCHANGED ifEntry

ReservedNameCall ==
    /\ Running
    /\ \E u \in UserInputs : Kind(CurLine, u) = "reserved"
    /\ Become(Advance(AfterGetline))
    /\ UNCHANGED ifEntry

FunctionCall ==
    /\ Running
    /\ \E u \in UserInputs : Kind(CurLine, u) = "call"
    /\ Len(returnStack) < MaxReturnStack
    /\ Become(HandleCall(AfterGetline, MatchFuncCall(CurLine)))
    /\ ForgetIfEntries

Goto ==
    /\ Running
    /\ \E u \in UserInputs : Kind(CurLine, u) = "goto"
    /\ Become(HandleGoto(AfterCallBranch, MatchGoto(CurLine)))
    /\ ForgetIfEntries

IfStatement ==
    /\ Running
    /\ scopeLevel < MaxScopeLevel
    /\ \E u \in UserInputs :
          /\ Kind(CurLine, u) = "if"
          /\ Become(HandleIf(AfterCallBranch, MatchIf(handleInputCall(CurLine, u), style)))
    /\ OpenIfEntry

Declaration ==
    /\ Running
    /\ \E u \in UserInputs :
          /\ Kind(CurLine, u) = "decl"
          /\ Become(HandleDeclaration(AfterCallBranch,
                                      MatchDeclaration(handleInputCall(CurLine, u))))
    /\ UNCHANGED ifEntry

Assignment ==
    /\ Running
    /\ \E u \in UserInputs :
          /\ Kind(CurLine, u) = "assign"
          /\ Become(HandleAssignment(AfterCallBranch,
                                     MatchAssignment(handleInputCall(CurLine, u))))
    /\ UNCHANGED ifEntry

PrintStatement ==
    /\ Running
    /\ \E u \in UserInputs :
          /\ Kind(CurLine, u) = "print"
          /\ Become(HandlePrint(AfterCallBranch,
                                MatchPrint(handleInputCall(CurLine, u)),
                                handleInputCall(CurLine, u)))
    /\ UNCHANGED ifEntry

\* A call of an undefined function: the Name error, then line 444.
UndefinedCall ==
    /\ Running
    /\ IsUndefinedCall(CurLine)
    /\ \E u \in UserInputs : Kind(CurLine, u) = "other"
    /\ Become(Advance(AfterCallBranch))
    /\ UNCHANGED ifEntry

\* A line no branch handles (lines 442-444).
UnhandledLine ==
    /\ Running
    /\ ~IsUndefinedCall(CurLine)
    /\ \E u \in UserInputs : Kind(CurLine, u) = "other"
    /\ Become(Advance(AfterCallBranch))
    /\ UNCHANGED ifEntry

\* std::getline fails at the end of the file: run() returns.
EndOfListing ==
    /\ status = "running"
    /\ filePos > Len(listing)
    /\ status' = "eof"
    /\ UNCHANGED <<precedence, expression, evalResult, overflowTraps, listing, finalNewline, filePos,
                   programCounter, scopeLevel, functionDepth, returnStack,
                   variables, functions, style, stderrLog, stdoutLog, lastLine,
                   ifEntry>>

Init ==
    /\ listing \in Programs
    /\ finalNewline \in BOOLEAN
    /\ overflowTraps \in BOOLEAN
    /\ filePos = 1
    /\ programCounter = 1
    /\ scopeLevel = 0
    /\ functionDepth = 0
    /\ returnStack = <<>>
    /\ variables = <<>>
    /\ functions = <<>>
    /\ style = "end"
    /\ status = "running"
    /\ stderrLog = <<>>
    /\ stdoutLog = <<>>
    /\ lastLine = 0
    /\ ifEntry = <<>>
    /\ precedence = InitialPrecedence
    /\ expression = <<>>
    /\ evalResult = EvalResult(<<>>, "empty")

Next ==
    \/ StyleDirective
    \/ Comment
    \/ EndCommand
    \/ BlankLine
    \/ CloseBlock
    \/ Return
    \/ FunctionDeclaration
    \/ ReservedNameCall
    \/ FunctionCall
    \/ Goto
    \/ IfStatement
    \/ Declaration
    \/ Assignment
    \/ PrintStatement
    \/ UndefinedCall
    \/ UnhandledLine
    \/ EndOfListing

Spec == Init /\ [][Next]_vars

----------------------------------------------------------------------------
(* Properties of the execution engine (Spec).  A step is described by the   *)
(* line it reads: in a state where the engine is Running, the step taken    *)
(* is the one run() makes for CurLine.                                      *)

Range(f) == {f[i] : i \in DOMAIN f}

\* The step reads a line that run() handles in branch k.
Reads(k, u) == Running /\ Kind(CurLine, u) = k

\* The name a declaration line declares.
DeclaredName(u) == MatchDeclaration(handleInputCall(CurLine, u)).g1

\* C1: executing `var x = e2` while a binding x is live reports a Compilation
\* error and performs no assignment: the binding x keeps its value, type and
\* declaring scope depth.
C1_RedeclarationAssignsNothing ==
    [][\A u \in UserInputs :
          (Reads("decl", u) /\ DeclaredName(u) \in DOMAIN variables)
             => /\ "Compilation Error" \in Range(stderrLog')
                /\ DeclaredName(u) \in DOMAIN variables'
                /\ variables'[DeclaredName(u)] = variables[DeclaredName(u)]]_vars

\* The value of the condition of the if line that is read.
IfCondition(u) ==
    EvalIn(AfterCallBranch, MatchIf(handleInputCall(CurLine, u), style).g1).result

\* The closer that matches the block opened by the line that is read.
MatchingCloser ==
    IF filePos + 1 \in 1..Len(listing)
    THEN ScanBlock(listing, style, filePos + 1, 1)
    ELSE -1

\* C4: when the if line at index i has a false condition and its block has a
\* matching closer at index c, the step sets the program counter to c+1, the
\* next line read is line c+1 (so no line of i+1..c is executed), and scope
\* depth and the variables are unchanged.
C4_FalseIfSkipsItsBlock ==
    [][\A u \in UserInputs :
          (/\ Reads("if", u)
           /\ IfCondition(u).type # "error"
           /\ ~asBool(IfCondition(u))
           /\ MatchingCloser # -1)
             => /\ programCounter' = MatchingCloser + 1
                /\ filePos' = MatchingCloser + 1
                /\ status' = "running"
                /\ scopeLevel' = scopeLevel
                /\ variables' = variables]_vars

\* C5: a true if outside any function raises scope depth by exactly 1 and
\* execution falls through to the next line; when the block's closer is then
\* reached with no GOTO, call or return in between, scope depth is back at
\* its value before the if, the bindings declared inside the block are
\* erased, and every binding live before the if is live with its scope depth
\* unchanged.
C5_TrueIfBlockScope ==
    [][/\ \A u \in UserInputs :
            (/\ Reads("if", u)
             /\ functionDepth = 0
             /\ IfCondition(u).type # "error"
             /\ asBool(IfCondition(u)))
               => /\ scopeLevel' = scopeLevel + 1
                  /\ filePos' = filePos + 1
                  /\ programCounter' = programCounter + 1
       /\ \A u \in UserInputs :
            (Reads("close", u) /\ ifEntry # <<>>)
               => /\ scopeLevel' = Last(ifEntry).scopeLevel
                  /\ DOMAIN variables' = DOMAIN Last(ifEntry).variables
                  /\ \A n \in DOMAIN variables' :
                        variables'[n].scopeLevel
                            = Last(ifEntry).variables[n].scopeLevel]_vars

\* C5, witness: in the listing of nested true ifs the inner closer (line 7)
\* has closed the inner block: c, declared inside, is gone; a and b, live
\* before the inner if, remain; the outer block is still open.
C5_InnerBlockClosed ==
    /\ listing = ProgIfTrue
    /\ lastLine = 7
    /\ scopeLevel = 1
    /\ Len(ifEntry) = 1
    /\ DOMAIN variables = {<<"a">>, <<"b">>}

\* The step is a return of an active call: a bare return, or a closer that
\* run() takes as a return, with a return address on the stack.
ReadsReturn(u) ==
    /\ functionDepth > 0
    /\ returnStack # <<>>
    /\ \/ Reads("return", u)
       \/ Reads("close", u) /\ scopeLevel = 1

\* C6: every return decrements function-call depth by 1, and a return that
\* brings it to 0 tears down the call's scope (scope depth 1, lines 304-308):
\* afterwards scope depth is below 1 and no binding of scope depth >= 1 is
\* live, wherever in the body the return is executed.
C6_ReturnTearsDownCallScope ==
    [][\A u \in UserInputs :
          (ReadsReturn(u) /\ status' = "running")
             => /\ functionDepth' = functionDepth - 1
                /\ functionDepth' = 0
                      => /\ scopeLevel' < 1
                         /\ \A n \in DOMAIN variables' :
                               variables'[n].scopeLevel < 1]_vars

\* Line c closes the body of a function declared in the listing.
IsFunctionCloser(c) ==
    \E d \in 1..Len(listing) :
        /\ MatchFuncDef(listing[d], style).ok
        /\ d + 1 <= Len(listing)
        /\ ScanBlock(listing, style, d + 1, 1) = c

\* C7: whenever the closer of a function body is reached while function-call
\* depth > 0 and the return-address stack is non-empty, the engine pops the
\* top of the stack and sets the program counter to it, whatever the scope
\* depth is.  (Stated for return addresses that are lines of the listing.)
C7_FunctionCloserReturns ==
    [][\A u \in UserInputs :
          (/\ Reads("close", u)
           /\ IsFunctionCloser(filePos)
           /\ functionDepth > 0
           /\ returnStack # <<>>
           /\ Last(returnStack) \in 1..Len(listing))
             => /\ returnStack' = Front(returnStack)
                /\ programCounter' = Last(returnStack)]_vars

\* The name called by the line that is read.
CalledName == MatchFuncCall(CurLine).g1

\* C8: a call at line i of a registered function declared at line d appends
\* exactly i+1 to the return-address stack, raises function-call depth by
\* exactly 1 and sets the program counter to d+1.
C8_CallPushesNextLine ==
    [][\A u \in UserInputs :
          Reads("call", u)
             => /\ returnStack' = Append(returnStack, filePos + 1)
                /\ functionDepth' = functionDepth + 1
                /\ \E d \in 1..Len(listing) :
                      /\ MatchFuncDef(listing[d], style).ok
                      /\ MatchFuncDef(listing[d], style).g1 = CalledName
                      /\ programCounter' = d + 1]_vars

\* The value of argument text a at the call line.
ArgumentValue(a) == evaluate(findAndReplaceVariables(a, variables), precedence).result

\* C9: after a call of a registered function with parameters p1..pn and
\* arguments a1..ak every pi is a live binding at the current scope depth;
\* for i <= k its value is that of ai evaluated against the variables live at
\* the call line, and for i > k it is zero.
C9_ParametersBoundToArguments ==
    [][\A u \in UserInputs :
          Reads("call", u) =>
            LET params == functions[CalledName].parameters
                args == splitAndTrimArgs(MatchFuncCall(CurLine).g2)
            IN  \A i \in 1..Len(params) :
                  /\ params[i] \in DOMAIN variables'
                  /\ variables'[params[i]].scopeLevel = scopeLevel'
                  /\ (i <= Len(args) /\ ArgumentValue(args[i]).type # "error")
                        => /\ variables'[params[i]].value = ArgumentValue(args[i]).value
                           /\ variables'[params[i]].type = ArgumentValue(args[i]).type
                  /\ i > Len(args) => variables'[params[i]].value = <<"0">>]_vars

\* C10 as stated: a call of an undefined function reports a Name error and
\* alters neither the program counter nor the return-address stack (nor
\* function-call depth, scope depth or the variables).
C10_UndefinedCallLeavesCounter ==
    [][(Running /\ IsUndefinedCall(CurLine))
          => /\ "Name Error" \in Range(stderrLog')
             /\ programCounter' = programCounter
             /\ returnStack' = returnStack
             /\ functionDepth' = functionDepth
             /\ scopeLevel' = scopeLevel
             /\ variables' = variables]_vars

\* C10, amended: a call of an undefined function reports a Name error and is
\* otherwise an empty statement: the program counter advances by exactly 1 to
\* the next line, which is the line read next (no jump), and the
\* return-address stack, function-call depth, scope depth, the variables and
\* the function table are unchanged.
C10_UndefinedCallOnlyAdvances ==
    [][(Running /\ IsUndefinedCall(CurLine))
          => /\ "Name Error" \in Range(stderrLog')
             /\ programCounter' = programCounter + 1
             /\ filePos' = filePos + 1
             /\ status' = "running"
             /\ returnStack' = returnStack
             /\ functionDepth' = functionDepth
             /\ scopeLevel' = scopeLevel
             /\ variables' = variables
             /\ functions' = functions]_vars

\* C10, witness: the engine has just executed a call of an undefined
\* function inside a function body (call depth 1) and reported it.
C10_UndefinedCallExecuted ==
    /\ lastLine \in 1..Len(listing)
    /\ IsUndefinedCall(listing[lastLine])
    /\ "Name Error" \in Range(stderrLog)
    /\ functionDepth = 1
    /\ returnStack # <<>>

\* The line number a GOTO line names.
GotoTarget == DigitsVal(MatchGoto(CurLine).g1)

\* C11: `GOTO n` with n a line of the listing sets the program counter to n
\* and the next line read is line n, with scope depth, call depth, return
\* stack and variables unchanged; `GOTO n` with n not in the listing ends
\* the process abnormally, and no step follows an abnormal end.
C11_GotoJumpsOrAborts ==
    [][/\ status = "running"
       /\ \A u \in UserInputs :
            Reads("goto", u) =>
              IF GotoTarget \in 1..Len(listing)
              THEN /\ programCounter' = GotoTarget
                   /\ filePos' = GotoTarget
                   /\ status' = "running"
                   /\ scopeLevel' = scopeLevel
                   /\ functionDepth' = functionDepth
                   /\ returnStack' = returnStack
                   /\ variables' = variables
              ELSE /\ status' = "exit_failure"
                   /\ variables' = variables]_vars

\* The function the declaration line being read declares.
DeclaredFunction == MatchFuncDef(CurLine, style)

\* C12: a function declaration at line d whose body closes at line c is
\* registered (name, parameters, entry d) when the scope depth is 0 and is
\* ignored with an error otherwise; in both cases the program counter
\* becomes c+1 and the next line read is none of d+1..c.
C12_DeclarationRegistersAndSkips ==
    [][\A u \in UserInputs :
          (Reads("funcdef", u) /\ MatchingCloser # -1)
             => /\ IF scopeLevel = 0
                   THEN /\ DOMAIN functions' = DOMAIN functions \cup {DeclaredFunction.g1}
                        /\ DeclaredFunction.g1 \notin DOMAIN functions
                              => functions'[DeclaredFunction.g1] =
                                   [parameters |-> splitAndTrimArgs(DeclaredFunction.g2),
                                    startingLine |-> filePos]
                   ELSE /\ functions' = functions
                        /\ stderrLog' # <<>>
                /\ programCounter' = MatchingCloser + 1
                /\ filePos' \notin (filePos + 1)..MatchingCloser]_vars

\* C19: a run ends normally when control passes the last line of the
\* listing (a false if whose closer is the last line, a function declaration
\* whose body closes on the last line, a return to the address after a call
\* on the last line); the process ends abnormally only by a GOTO to a line
\* that is not in the listing.
C19_AbnormalEndOnlyByGoto ==
    [][status' \in {"exit_failure", "fault"}
          => \E u \in UserInputs :
                Reads("goto", u) /\ GotoTarget \notin 1..Len(listing)]_vars

\* The name an assignment line assigns to, and the value of its expression
\* against the variables live at the line.
AssignedName(u) == MatchAssignment(handleInputCall(CurLine, u)).g1
AssignedValue(u) ==
    EvalIn(AfterCallBranch, MatchAssignment(handleInputCall(CurLine, u)).g2).result

\* C20: `name = expr` with name not live reports a Name error and leaves the
\* variables unchanged; with name live and expr evaluated without error it
\* replaces the value and type of that binding and nothing else (its scope
\* depth and every other binding are unchanged); with expr evaluated to an
\* error the binding keeps its value.
C20_AssignmentFrame ==
    [][\A u \in UserInputs :
          Reads("assign", u) =>
            IF AssignedName(u) \notin DOMAIN variables
            THEN /\ "Name Error" \in Range(stderrLog')
                 /\ variables' = variables
            ELSE IF AssignedValue(u).type = "error"
            THEN variables' = variables
            ELSE AssignedValue(u).type # "fault"
                   => /\ DOMAIN variables' = DOMAIN variables
                      /\ variables'[AssignedName(u)].value = AssignedValue(u).value
                      /\ variables'[AssignedName(u)].type = AssignedValue(u).type
                      /\ variables'[AssignedName(u)].scopeLevel
                            = variables[AssignedName(u)].scopeLevel
                      /\ \A n \in DOMAIN variables \ {AssignedName(u)} :
                            variables'[n] = variables[n]]_vars

\* C20, witness: `x = y * 3` has been executed with x = 1 and y = 2 live: x
\* holds Int 6 at its scope depth 0 and y is as it was.
C20_AssignedProduct ==
    /\ listing = ProgAssign
    /\ lastLine = 3
    /\ variables[<<"x">>].value = <<"6">>
    /\ variables[<<"x">>].type = "int"
    /\ variables[<<"x">>].scopeLevel = 0
    /\ variables[<<"y">>].value = <<"2">>

\* The statement a print line holds after handleInputCall, and the value of
\* its expression against the variables live at the line.
PrintedLine(u) == handleInputCall(CurLine, u)
PrintedValue(u) == EvalIn(AfterCallBranch, MatchPrint(PrintedLine(u)).g1).result

\* C21: `print EXPR` writes exactly the textual form of the value of EXPR
\* (a string without its quotes) and no line break; `println EXPR` writes
\* that form followed by exactly one line break; when EXPR evaluates to an
\* error nothing is written.  The statement is print or println by its
\* leading keyword, whatever EXPR contains.
C21_PrintWritesTextualForm ==
    [][\A u \in UserInputs :
          Reads("print", u) =>
            IF PrintedValue(u).type = "error" THEN stdoutLog' = <<>>
            ELSE PrintedValue(u).type # "fault"
                   => stdoutLog' =
                        asString(PrintedValue(u))
                          \o (IF MatchKeywordExpr(PrintedLine(u), T_println).ok
                              THEN <<"\n">> ELSE <<>>)]_vars

\* C22: a bare `return` executed while the return-address stack is empty
\* reports a Runtime error and aborts: the step leaves the variables, the
\* scope depth and the call depth as they were, and no step follows it.
C22_BareReturnAborts ==
    [][/\ status # "runtime_abort"
       /\ \A u \in UserInputs :
            (Reads("return", u) /\ returnStack = <<>>)
               => /\ status' = "runtime_abort"
                  /\ "Runtime Error" \in Range(stderrLog')
                  /\ variables' = variables
                  /\ scopeLevel' = scopeLevel
                  /\ functionDepth' = functionDepth]_vars

\* C22, witness: the bare return on line 4, inside a true if and outside any
\* call, has aborted the run: a and b are live at scope depth 1 as before.
C22_ReturnOutsideCallAborted ==
    /\ listing = ProgReturnInBlock
    /\ lastLine = 4
    /\ status = "runtime_abort"
    /\ scopeLevel = 1
    /\ functionDepth = 0
    /\ DOMAIN variables = {<<"a">>, <<"b">>}

\* C23: a block closer read while the call depth is 0 erases, when the scope
\* depth is above 0, exactly the bindings of the current scope depth (every
\* other binding is kept as it is) and lowers the scope depth by 1; at scope
\* depth 0 it reports a Syntax error and leaves the scope depth and the
\* variables unchanged; in both cases the program counter advances by 1 and
\* the next line read is the following line.
C23_CloserOutsideFunction ==
    [][\A u \in UserInputs :
          (Reads("close", u) /\ functionDepth = 0)
             => /\ IF scopeLevel > 0
                   THEN /\ scopeLevel' = scopeLevel - 1
                        /\ DOMAIN variables' =
                             {n \in DOMAIN variables :
                                 variables[n].scopeLevel # scopeLevel}
                        /\ \A n \in DOMAIN variables' : variables'[n] = variables[n]
                   ELSE /\ "Syntax Error" \in Range(stderrLog')
                        /\ scopeLevel' = scopeLevel
                        /\ variables' = variables
                /\ programCounter' = programCounter + 1
                /\ filePos' = filePos + 1
                /\ functionDepth' = 0
                /\ status' = "running"]_vars

\* C23, witness: the closer on line 9 has closed the outer if of the listing
\* of nested ifs: b, declared in that block, is erased, a (scope depth 0) is
\* live, and line 10 is read next.
C23_OuterBlockClosed ==
    /\ listing = ProgIfTrue
    /\ lastLine = 9
    /\ functionDepth = 0
    /\ scopeLevel = 0
    /\ DOMAIN variables = {<<"a">>}
    /\ filePos = 10

\* C24: a line of the form `print EXPR` or `println EXPR` is handled by the
\* print branch and a line of the form `if COND` (in the block style in
\* effect) by the conditional branch, and by no other branch: it is neither
\* taken as a function call nor passed over, also when EXPR or COND begins
\* with `(` and ends with `)`.
C24_KeywordDecidesBranch ==
    \A u \in UserInputs :
        Running =>
          /\ MatchPrint(CurLine).ok => Kind(CurLine, u) = "print"
          /\ MatchIf(CurLine, style).ok => Kind(CurLine, u) = "if"

\* C25: an entry of the function table never changes and is never removed:
\* whatever line a step executes (another declaration of the same name, the
\* same declaration once more after a backward GOTO), every registered name
\* stays registered with its parameter list and entry line.
C25_FunctionEntriesAreFinal ==
    [][\A n \in DOMAIN functions :
          /\ n \in DOMAIN functions'
          /\ functions'[n] = functions[n]]_vars

\* C25, witness: after the backward GOTO the second declaration of f
\* (line 5, parameters a and b) has been executed for the second time, and f
\* is still the function of line 2 with the one parameter a.
C25_SecondDeclarationExecutedAgain ==
    /\ listing = ProgRedeclareFunc
    /\ lastLine = 5
    /\ <<"i">> \in DOMAIN variables
    /\ variables[<<"i">>].value = <<"2">>
    /\ functions[<<"f">>] = [parameters |-> << <<"a">> >>, startingLine |-> 2]

\* The block style a STYLE directive with value val selects when the style in
\* effect is old, and the style that is not in effect.
SelectedStyle(val, old) ==
    IF val = T_brackets THEN "brackets" ELSE IF val = T_end THEN "end" ELSE old
OtherStyle == IF style = "brackets" THEN "end" ELSE "brackets"

\* C26: a `STYLE = brackets` or `STYLE = end` directive sets the block style
\* for the lines read after it, a directive with another value leaves it as
\* it is, and no other step changes it.  At every step the headers and
\* closers are those of the style in effect: a closer of the other style
\* closes nothing, a function header of the other style registers nothing,
\* a line that is an if header in the other style only opens no scope; and
\* the forward search of a false if and of a function declaration ends at the
\* closer that matches in the style in effect, and the program counter is set
\* to the line after it (at a step where the program counter is the number
\* of the line read, and that line after it is in the listing).
C26_StyleDirectiveTakesEffect ==
    [][/\ \A u \in UserInputs :
            Reads("style", u)
               => /\ style' = SelectedStyle(MatchStyle(CurLine).g1, style)
                  /\ filePos' = filePos + 1
       /\ (\A u \in UserInputs : ~Reads("style", u)) => style' = style
       /\ Running =>
            /\ MatchCloseBlock(CurLine, OtherStyle)
                  => /\ scopeLevel' = scopeLevel
                     /\ variables' = variables
                     /\ returnStack' = returnStack
                     /\ filePos' = filePos + 1
            /\ MatchFuncDef(CurLine, OtherStyle).ok
                  => /\ functions' = functions
                     /\ filePos' = filePos + 1
            /\ (MatchIf(CurLine, OtherStyle).ok /\ ~MatchIf(CurLine, style).ok)
                  => /\ scopeLevel' = scopeLevel
                     /\ filePos' = filePos + 1
       /\ \A u \in UserInputs :
            (/\ \/ Reads("funcdef", u)
                \/ /\ Reads("if", u)
                   /\ IfCondition(u).type = "bool"
                   /\ ~asBool(IfCondition(u))
             /\ programCounter = filePos
             /\ MatchingCloser # -1
             /\ MatchingCloser < Len(listing))
               => /\ MatchCloseBlock(listing[MatchingCloser], style)
                  /\ programCounter' = MatchingCloser + 1]_vars

\* C26, witness: after `STYLE = brackets` and `STYLE = end` the false if of
\* line 11 has been skipped up to its `end` on line 14, the `}` of line 12
\* inside it not being a closer any more.
C26_SwitchedBackToEnd ==
    /\ listing = ProgStyleSwitch
    /\ lastLine = 11
    /\ style = "end"
    /\ filePos = 15
    /\ scopeLevel = 0

\* C29: an if whose condition evaluates to an error reports a Runtime error,
\* leaves the scope depth and the variables unchanged and advances the
\* program counter by exactly 1; the next line read is the line after the if
\* line.
C29_IfErrorContinues ==
    [][\A u \in UserInputs :
          (Reads("if", u) /\ IfCondition(u).type = "error")
             => /\ "Runtime Error" \in Range(stderrLog')
                /\ scopeLevel' = scopeLevel
                /\ variables' = variables
                /\ programCounter' = programCounter + 1
                /\ filePos' = filePos + 1
                /\ status' = "running"]_vars

\* C29, witness: `if a && true` on line 4, a type error with a = 1, has been
\* executed inside the true if of line 2: the error is reported, a and b are
\* live at scope depth 1 and line 5 is read next.
C29_IfErrorReported ==
    /\ listing = ProgIfError
    /\ lastLine = 4
    /\ "Runtime Error" \in Range(stderrLog)
    /\ scopeLevel = 1
    /\ DOMAIN variables = {<<"a">>, <<"b">>}
    /\ programCounter = 5
    /\ filePos = 5

\* Openers minus closers among the lines s..c of lst in terminated style.
LineNet(lst, st, s, c) ==
    Cardinality({i \in s..c : MatchFuncDef(lst[i], st).ok \/ MatchIf(lst[i], st).ok})
        - Cardinality({i \in s..c : MatchCloseBlock(lst[i], st)})

\* `{` minus `}` among the first k characters of a line, and in the whole
\* lines s..c of lst.
BraceNet(line, k) ==
    Cardinality({i \in 1..k : line[i] = "{"}) - Cardinality({i \in 1..k : line[i] = "}"})

RECURSIVE BraceNetLines(_, _, _)
BraceNetLines(lst, s, c) ==
    IF c < s THEN 0
    ELSE BraceNet(lst[c], Len(lst[c])) + BraceNetLines(lst, s, c - 1)

\* Line c holds a closer at which the openers minus the closers seen from
\* line s on come to net zero, the block entered before s counted as open.
ReachesNetZero(lst, st, s, c) ==
    IF st = "brackets"
    THEN \E k \in 1..Len(lst[c]) :
            /\ lst[c][k] = "}"
            /\ BraceNetLines(lst, s, c - 1) + BraceNet(lst[c], k) = -1
    ELSE MatchCloseBlock(lst[c], st) /\ LineNet(lst, st, s, c) = -1

\* The least element of a set of line numbers, -1 for the empty set.
Least(S) == IF S = {} THEN -1 ELSE CHOOSE c \in S : \A d \in S : c <= d

\* The first line from s on that reaches net zero, -1 if the listing ends
\* before.
FirstNetZero(lst, st, s) ==
    Least({c \in s..Len(lst) : ReachesNetZero(lst, st, s, c)})

\* Line s is the line after an opener of style st.
AfterOpener(lst, st, s) ==
    /\ s - 1 \in 1..Len(lst)
    /\ MatchIf(lst[s - 1], st).ok \/ MatchFuncDef(lst[s - 1], st).ok

\* The step calls findBlockEnd(programCounter + 1): it reads a function
\* declaration, or an if whose condition is false.
CallsFindBlockEnd(u) ==
    \/ Reads("funcdef", u)
    \/ /\ Reads("if", u)
       /\ IfCondition(u).type \notin {"error", "fault"}
       /\ ~asBool(IfCondition(u))

\* C30: findBlockEnd(s), started on the line after an opener, returns the
\* index of the first closer at which the openers minus the closers seen
\* since s reach net zero, and -1 if the listing ends first; in terminated
\* style the if and function headers are the openers and `end` the closer,
\* in bracketed style the characters `{` and `}` are counted.  Stated of
\* every call the engine makes.
C30_FindBlockEndIsFirstNetZero ==
    [][\A u \in UserInputs :
          (CallsFindBlockEnd(u) /\ AfterOpener(listing, style, programCounter + 1))
             => findBlockEnd(listing, style, programCounter + 1)
                   = FirstNetZero(listing, style, programCounter + 1)]_vars

\* C33: when an argument expression of a call of a registered function
\* evaluates to an error (and the name of its parameter is not live), the
\* parameter is bound to the number 0, that is to the text 0 with a numeric
\* type, and a warning is reported.
C33_FailedArgumentIsZero ==
    [][\A u \in UserInputs :
          Reads("call", u) =>
            LET params == functions[CalledName].parameters
                args == splitAndTrimArgs(MatchFuncCall(CurLine).g2)
            IN  \A i \in 1..Len(params) :
                  (/\ i <= Len(args)
                   /\ args[i] # <<>>
                   /\ params[i] \notin DOMAIN variables
                   /\ ArgumentValue(args[i]).type = "error")
                     => /\ "Runtime Warning" \in Range(stderrLog')
                        /\ params[i] \in DOMAIN variables'
                        /\ variables'[params[i]].value = <<"0">>
                        /\ variables'[params[i]].type \in {"int", "float"}]_vars

\* C34: at the start of every step of the run loop the program counter is the
\* 1-based index of the line that the step reads and executes, whatever
\* statements came before, those that report an error included.
C34_CounterIsLineRead == Running => programCounter = filePos

\* C35: in every reachable state function-call depth equals the length of the
\* return-address stack, so it is never negative and the stack is not empty
\* while the depth is above 0; the two change together, and only in the step
\* of a call, of a bare return or of a block closer.
C35_DepthIsStackLength ==
    [][/\ functionDepth = Len(returnStack)
       /\ functionDepth' = Len(returnStack')
       /\ functionDepth' >= 0
       /\ (functionDepth' # functionDepth \/ returnStack' # returnStack)
             => \E u \in UserInputs :
                   Reads("call", u) \/ Reads("return", u) \/ Reads("close", u)]_vars

\* C35, witness: in ProgNested the call of g made from inside f has returned
\* at the closer of line 3, and the call of f is still open.
C35_InnerCallReturned ==
    /\ listing = ProgNested
    /\ lastLine = 3
    /\ functionDepth = 1
    /\ returnStack = <<9>>

\* C36: in every reachable state scope depth is at least 0 and every live
\* binding has a declaring scope depth between 0 and the current scope depth:
\* no binding is left from a scope deeper than the current one.
C36_BindingsWithinScope ==
    /\ scopeLevel >= 0
    /\ \A n \in DOMAIN variables : variables[n].scopeLevel \in 0..scopeLevel

\* C36, witness: in ProgIfTrue the closer of line 9 has left the outer if:
\* scope depth is 0 again, b of that block is gone and the global a is live.
C36_BlockBindingsGone ==
    /\ listing = ProgIfTrue
    /\ lastLine = 9
    /\ scopeLevel = 0
    /\ <<"b">> \notin DOMAIN variables
    /\ <<"a">> \in DOMAIN variables
    /\ variables[<<"a">>].scopeLevel = 0

\* C37: every live binding holds a proper value: its type is one of int,
\* float, bool and string, and its stored text is a literal of that type.
C37_BindingsHoldValues ==
    \A n \in DOMAIN variables :
       /\ variables[n].type \in {"int", "float", "bool", "string"}
       /\ getTokenType(variables[n].value) = variables[n].type

\* C38: a call of a registered function made from inside a true if block at
\* global level preserves that block.  The step of the call keeps every
\* binding that is live at the call line, those declared in the block
\* included, with its value and declaring scope depth, and opens the scope of
\* the callee above that of the block (scope depth + 1); the step in which
\* the outermost call returns leaves exactly that one scope and erases only
\* its bindings.  So after the return the block's bindings are live, scope
\* depth is what it was before the call, and the closer of the block is an
\* ordinary scope teardown.
C38_CallPreservesBlock ==
    [][\A u \in UserInputs :
          /\ (Reads("call", u) /\ functionDepth = 0 /\ ifEntry # <<>>)
                => /\ scopeLevel' = scopeLevel + 1
                   /\ \A n \in DOMAIN variables :
                         /\ n \in DOMAIN variables'
                         /\ variables'[n] = variables[n]
          /\ (ReadsReturn(u) /\ functionDepth = 1 /\ status' = "running")
                => /\ scopeLevel' = scopeLevel - 1
                   /\ \A n \in DOMAIN variables :
                         variables[n].scopeLevel < scopeLevel
                            => /\ n \in DOMAIN variables'
                               /\ variables'[n] = variables[n]]_vars

\* The registered functions whose body holds the line that is read.
EnclosingFunctions ==
    {fn \in DOMAIN functions :
        /\ functions[fn].startingLine < filePos
        /\ filePos <= findBlockEnd(listing, style, functions[fn].startingLine + 1)}

\* C39: when function f calls function g, the bindings of f are kept and the
\* parameters of g end with g.  The step of a call made inside a call keeps
\* every binding that is live at the call line with its value; after the step
\* in which that inner call returns, the parameters of the function that
\* returns are no longer live.
C39_NestedCallKeepsCaller ==
    [][\A u \in UserInputs :
          /\ (Reads("call", u) /\ functionDepth > 0)
                => \A n \in DOMAIN variables :
                      /\ n \in DOMAIN variables'
                      /\ variables'[n] = variables[n]
          /\ (ReadsReturn(u) /\ functionDepth > 1 /\ status' = "running")
                => \A fn \in EnclosingFunctions :
                      \A n \in Range(functions[fn].parameters) :
                         n \notin DOMAIN variables']_vars

\* Line is a block header (an if or a function declaration) or a block closer
\* in one of the two styles.
IsHeader(line) ==
    \E st \in {"end", "brackets"} : MatchIf(line, st).ok \/ MatchFuncDef(line, st).ok
IsCloser(line) == \E st \in {"end", "brackets"} : MatchCloseBlock(line, st)

\* The maximum static nesting depth of blocks in lst: the most that the
\* headers exceed the closers over a run of lines s..c.
OpenBlocks(lst, s, c) ==
    Cardinality({i \in s..c : IsHeader(lst[i])})
        - Cardinality({i \in s..c : IsCloser(lst[i])})
NestingDepth(lst) ==
    CHOOSE d \in 0..Len(lst) :
       /\ \A s \in 1..Len(lst), c \in 1..Len(lst) : OpenBlocks(lst, s, c) <= d
       /\ d = 0 \/ \E s \in 1..Len(lst), c \in 1..Len(lst) : OpenBlocks(lst, s, c) = d

\* C40: scope depth stays balanced under jumps: in every reachable state it
\* is at most the maximum static nesting depth of blocks in the listing.
C40_ScopeWithinNesting == scopeLevel <= NestingDepth(listing)

----------------------------------------------------------------------------
(* Evaluator::evaluate on its own: one Evaluator, one expression text       *)

\* Int literals are the numerals of 0..MaxLit.
MaxLit == 2
Lits == 0..MaxLit

\* "a + b * c"
SumProduct(a, b, c) ==
    NatText(a) \o <<" ", "+", " ">> \o NatText(b) \o <<" ", "*", " ">> \o NatText(c)

\* "(a + b) * c"
ParenSumProduct(a, b, c) ==
    <<"(">> \o NatText(a) \o <<" ", "+", " ">> \o NatText(b) \o <<")", " ", "*", " ">>
        \o NatText(c)

\* "\"a\" + b": a string literal with numeric contents on the left.
QuotedPlus(a, b) ==
    <<QUOTE>> \o NatText(a) \o <<QUOTE, " ", "+", " ">> \o NatText(b)

\* "a + \"b\"": a string literal with numeric contents on the right.
PlusQuoted(a, b) ==
    NatText(a) \o <<" ", "+", " ", QUOTE>> \o NatText(b) \o <<QUOTE>>

\* "x op y" for operand texts x and y.
BinaryText(x, op, y) == x \o <<" ">> \o op \o <<" ">> \o y

\* A string literal with contents t.
Quoted(t) == <<QUOTE>> \o t \o <<QUOTE>>

\* Int operands of / and %: signed literals, and the operands of the
\* quotients 10 / 4 and 10 / 5.
SignedLits == (-MaxLit)..MaxLit
Dividends == SignedLits \cup {10}
Divisors == SignedLits \cup {4, 5}

\* "a / b" and "a % b"
Division(a, b) == BinaryText(IntText(a), <<"/">>, IntText(b))
Remainder(a, b) == BinaryText(IntText(a), <<"%">>, IntText(b))

\* "a % b.0" and "\"a\" % b": an operand of % that is not an Int token.
RemainderByFloat(a, b) == BinaryText(NatText(a), <<"%">>, NatText(b) \o <<".", "0">>)
RemainderOfQuoted(a, b) == BinaryText(Quoted(NatText(a)), <<"%">>, NatText(b))

\* "p && q", "p || q", "p || q && r" and "p && q || r" over Bool literals.
Conjunction(p, q) == BinaryText(BoolText(p), O_and, BoolText(q))
Disjunction(p, q) == BinaryText(BoolText(p), O_or, BoolText(q))
OrAnd(p, q, r) == BinaryText(BoolText(p), O_or, Conjunction(q, r))
AndOr(p, q, r) == BinaryText(Conjunction(p, q), O_or, BoolText(r))

\* "p && a < b" and "a < b || p": a relational operand of a logical operator.
AndLess(p, a, b) == BinaryText(BoolText(p), O_and, BinaryText(NatText(a), <<"<">>, NatText(b)))
LessOr(a, b, p) == BinaryText(BinaryText(NatText(a), <<"<">>, NatText(b)), O_or, BoolText(p))

\* "a < b && b < c"
LessAndLess(a, b, c) ==
    BinaryText(BinaryText(NatText(a), <<"<">>, NatText(b)), O_and,
               BinaryText(NatText(b), <<"<">>, NatText(c)))

\* "p && a" and "a || p": an operand of a logical operator that is no Bool.
AndInt(p, a) == BinaryText(BoolText(p), O_and, NatText(a))
IntOr(a, p) == BinaryText(NatText(a), O_or, BoolText(p))

\* Contents of string literals that are no numerals.
T_foo == <<"f", "o", "o">>
T_bar == <<"b", "a", "r">>
Words == {T_foo, T_bar, <<>>}

\* Contents of string literals, numerals included.
Contents == Words \cup {<<"1">>}

\* The Float literal 1.5.
T_1_5 == <<"1", ".", "5">>

\* "\"v\" + \"w\"", "\"v\" + a" and "a + \"v\""; with the Float literal,
\* "\"v\" + 1.5" and "1.5 + \"v\"".
StrPlusStr(v, w) == BinaryText(Quoted(v), <<"+">>, Quoted(w))
StrPlusInt(v, a) == BinaryText(Quoted(v), <<"+">>, NatText(a))
IntPlusStr(a, v) == BinaryText(NatText(a), <<"+">>, Quoted(v))
StrPlusFloat(v) == BinaryText(Quoted(v), <<"+">>, T_1_5)
FloatPlusStr(v) == BinaryText(T_1_5, <<"+">>, Quoted(v))

\* "16777217 / 1" and "16777217 % 16777218": Int operands from 2^24 + 1 on.
LargeIntTexts == {Division(16777217, 1), Remainder(16777217, 16777218)}

\* "p % b": a Bool operand of %.
RemainderOfBool(p, b) == BinaryText(BoolText(p), <<"%">>, NatText(b))

\* Texts with an operator token that is not in the precedence map; the second
\* one has no other fault.
UnknownOperatorTexts ==
    {<<"t", "r", "u", "e", " ", "*", " ", "2", " ", "=", " ", "3">>,
     <<"1", " ", "-", " ", "2", " ", "&", " ", "3">>}

\* Texts whose numerals are out of the range of float or of long long, or at
\* its edge.
T_LLongMinModMinusOne == <<"-", "9", "2", "2", "3", "3", "7", "2", "0", "3", "6", "8", "5", "4", "7", "7", "5", "8", "0", "8", " ", "%", " ", "-", "1">>
OutOfRangeTexts ==
    {<<"1", "0", "0", "0", "0", "0", "0", "0", "0", "0", "0", "0", "0", "0", "0", "0", "0", "0", "0", "0", "0", "0", "0", "0", "0", "0", "0", "0", "0", "0", "0", "0", "0", "0", "0", "0", "0", "0", "0", "0", " ", "*", " ", "1">>,
     <<"9", "2", "2", "3", "3", "7", "2", "0", "3", "6", "8", "5", "4", "7", "7", "5", "8", "0", "8", " ", "%", " ", "2">>,
     <<"-", "9", "2", "2", "3", "3", "7", "2", "0", "3", "6", "8", "5", "4", "7", "7", "5", "8", "0", "9", " ", "%", " ", "2">>,
     <<"2", " ", "%", " ", "9", "2", "2", "3", "3", "7", "2", "0", "3", "6", "8", "5", "4", "7", "7", "5", "8", "0", "8">>,
     T_LLongMinModMinusOne}

\* The empty text, malformed tokens, mismatched parentheses, operators
\* without operands and a type error.
MalformedTexts ==
    {<<>>,
     <<"(", "1">>, <<"1", ")">>, <<"1", " ", "$", " ", "2">>, <<"a", "b", "c">>, <<QUOTE, "a">>, <<"t", "r", "u", "e", " ", "*", " ", "2">>, <<"1", " ", "*">>, <<"1", " ", ".", " ", "2">>}

\* "!e" and "(e)" for an operand text e.
Negation(e) == <<"!">> \o e
Parenthesised(e) == <<"(">> \o e \o <<")">>

\* Negations of Bool literals and of Bool-valued expressions, among them
\* expressions that begin with ! themselves, and of operands that are no Bool.
NegationTexts ==
    {Negation(BoolText(p)) : p \in BOOLEAN}
        \cup {Negation(Negation(BoolText(p))) : p \in BOOLEAN}
        \cup {Negation(Parenthesised(Negation(BoolText(p)))) : p \in BOOLEAN}
        \cup {Negation(Parenthesised(Conjunction(p, q))) : p \in BOOLEAN, q \in BOOLEAN}
        \cup {Negation(NatText(a)) : a \in Lits}
        \cup {Negation(Quoted(v)) : v \in Words}

\* Texts with a lone `=`, `&` or `|` between two Int literals, and with a
\* numeral with two decimal points before `* 2` and between two Int literals.
LoneOperatorTexts ==
    {BinaryText(NatText(a), op, NatText(b)) :
        a \in Lits, b \in Lits, op \in {<<"=">>, <<"&">>, <<"|">>}}
        \cup {BinaryText(<<"1", ".", "2", ".", "3">>, <<"*">>, <<"2">>),
              BinaryText(<<"1">>, <<"1", ".", "2", ".", "3">>, <<"2">>)}

\* The Float literals 5.0 and 5.5.
T_5_0 == <<"5", ".", "0">>
T_5_5 == <<"5", ".", "5">>

\* Operands of - and * that are numeric after coercion, each with the token
\* kind of its text and its value num/den: Int literals, the Float tokens 5.0
\* and 1.5, and Str literals whose contents are the numerals 5, 5.5 and 5.0.
ArithInts == SignedLits \cup {3, 5}
NumericOperand(text, kind, num, den) ==
    [text |-> text, kind |-> kind, num |-> num, den |-> den]
NumericOperands ==
    {NumericOperand(IntText(a), "Int", a, 1) : a \in ArithInts}
        \cup {NumericOperand(T_5_0, "Float", 5, 1), NumericOperand(T_1_5, "Float", 3, 2)}
        \cup {NumericOperand(Quoted(<<"5">>), "Str", 5, 1),
              NumericOperand(Quoted(T_5_5), "Str", 11, 2),
              NumericOperand(Quoted(T_5_0), "Str", 5, 1)}

\* Operand texts that are not numeric after coercion: Str literals whose
\* contents are no numeral, and Bool literals.
NonNumericOperands == {Quoted(v) : v \in Words} \cup {BoolText(p) : p \in BOOLEAN}

ArithOperators == {<<"-">>, <<"*">>}

\* "x - y" and "x * y" over these operands, and over Int literals from
\* 2^24 + 1 on.
LargeDifference == BinaryText(NatText(16777217), <<"-">>, <<"0">>)
LargeProduct == BinaryText(NatText(16777217), <<"*">>, <<"1">>)
ArithTexts ==
    {BinaryText(x, op, y) :
        x \in {o.text : o \in NumericOperands} \cup NonNumericOperands,
        y \in {o.text : o \in NumericOperands} \cup NonNumericOperands,
        op \in ArithOperators}
        \cup {LargeDifference, LargeProduct}

\* "a - b - c", "a / b * c" and "a - b * c"
DifferenceOfThree(a, b, c) ==
    BinaryText(BinaryText(NatText(a), <<"-">>, NatText(b)), <<"-">>, NatText(c))
QuotientTimes(a, b, c) ==
    BinaryText(BinaryText(NatText(a), <<"/">>, NatText(b)), <<"*">>, NatText(c))
DifferenceOfProduct(a, b, c) ==
    BinaryText(NatText(a), <<"-">>, BinaryText(NatText(b), <<"*">>, NatText(c)))
ChainTexts ==
    {DifferenceOfThree(a, b, c) : a \in Lits, b \in Lits, c \in Lits}
        \cup {QuotientTimes(a, b, c) : a \in Lits, b \in Lits, c \in Lits}
        \cup {DifferenceOfProduct(a, b, c) : a \in Lits, b \in Lits, c \in Lits}

ExprInputs ==
    {SumProduct(a, b, c) : a \in Lits, b \in Lits, c \in Lits}
        \cup {ParenSumProduct(a, b, c) : a \in Lits, b \in Lits, c \in Lits}
        \cup {QuotedPlus(a, b) : a \in Lits, b \in Lits}
        \cup {PlusQuoted(a, b) : a \in Lits, b \in Lits}
        \cup {Division(a, b) : a \in Dividends, b \in Divisors}
        \cup {Remainder(a, b) : a \in Dividends, b \in Divisors}
        \cup {RemainderByFloat(a, b) : a \in Lits, b \in Lits}
        \cup {RemainderOfQuoted(a, b) : a \in Lits, b \in Lits}
        \cup {RemainderOfBool(p, b) : p \in BOOLEAN, b \in Lits}
        \cup LargeIntTexts
        \cup {Conjunction(p, q) : p \in BOOLEAN, q \in BOOLEAN}
        \cup {Disjunction(p, q) : p \in BOOLEAN, q \in BOOLEAN}
        \cup {OrAnd(p, q, r) : p \in BOOLEAN, q \in BOOLEAN, r \in BOOLEAN}
        \cup {AndOr(p, q, r) : p \in BOOLEAN, q \in BOOLEAN, r \in BOOLEAN}
        \cup {AndLess(p, a, b) : p \in BOOLEAN, a \in Lits, b \in Lits}
        \cup {LessOr(a, b, p) : a \in Lits, b \in Lits, p \in BOOLEAN}
        \cup {LessAndLess(a, b, c) : a \in Lits, b \in Lits, c \in Lits}
        \cup {LessAndLess(1, 2, 3)}
        \cup {AndInt(p, a) : p \in BOOLEAN, a \in Lits}
        \cup {IntOr(a, p) : a \in Lits, p \in BOOLEAN}
        \cup {StrPlusStr(v, w) : v \in Contents, w \in Contents}
        \cup {StrPlusFloat(v) : v \in Words}
        \cup {FloatPlusStr(v) : v \in Words}
        \cup {StrPlusInt(v, a) : v \in Words, a \in Lits}
        \cup {IntPlusStr(a, v) : a \in Lits, v \in Words}
        \cup UnknownOperatorTexts
        \cup OutOfRangeTexts
        \cup MalformedTexts
        \cup NegationTexts
        \cup LoneOperatorTexts
        \cup ArithTexts
        \cup ChainTexts

\* No evaluation has been made yet.
NotEvaluated == EvalResult(<<>>, "empty")

\* A fresh Evaluator (precedence map of lines 217-225) in some build and a
\* text to evaluate; no engine is running.
InitEval ==
    /\ expression \in ExprInputs
    /\ evalResult = NotEvaluated
    /\ precedence = InitialPrecedence
    /\ overflowTraps \in BOOLEAN
    /\ listing = <<>>
    /\ finalNewline = TRUE
    /\ filePos = 1
    /\ programCounter = 1
    /\ scopeLevel = 0
    /\ functionDepth = 0
    /\ returnStack = <<>>
    /\ variables = <<>>
    /\ functions = <<>>
    /\ style = "end"
    /\ status = "idle"
    /\ stderrLog = <<>>
    /\ stdoutLog = <<>>
    /\ lastLine = 0
    /\ ifEntry = <<>>

\* The evaluator's state after evaluate gave ev: the EvalResult returned and
\* the precedence map left behind, or the process killed by a trap.
Returned(ev) ==
    IF ev.result.type = "fault"
    THEN /\ status' = "fault"
         /\ UNCHANGED <<evalResult, precedence>>
    ELSE /\ evalResult' = ev.result
         /\ precedence' = ev.prec
         /\ status' = status

\* evaluate(expression)
Evaluate ==
    /\ status = "idle"
    /\ evalResult = NotEvaluated
    /\ Returned(evaluate(expression, precedence))
    /\ UNCHANGED <<expression, overflowTraps, listing, finalNewline, filePos,
                   programCounter, scopeLevel, functionDepth, returnStack, variables,
                   functions, style, stderrLog, stdoutLog, lastLine, ifEntry>>

NextEval == Evaluate

SpecEval == InitEval /\ [][NextEval]_vars

----------------------------------------------------------------------------
(* Evaluator::evaluate called again and again on one Evaluator              *)

\* The texts evaluated in a row: texts that fail, with and without operator
\* tokens unknown to the precedence map, and texts over the operators of
\* every precedence level.
SeriesInputs ==
    UnknownOperatorTexts \cup OutOfRangeTexts \cup MalformedTexts
        \cup {Division(a, b) : a \in Lits, b \in Lits}
        \cup {OrAnd(p, q, r) : p \in BOOLEAN, q \in BOOLEAN, r \in BOOLEAN}
        \cup {AndLess(p, a, b) : p \in BOOLEAN, a \in Lits, b \in Lits}
        \cup {StrPlusInt(v, a) : v \in Words, a \in Lits}

\* A fresh Evaluator that has evaluated nothing.
InitSeries ==
    /\ expression = <<>>
    /\ evalResult = NotEvaluated
    /\ precedence = InitialPrecedence
    /\ overflowTraps \in BOOLEAN
    /\ listing = <<>>
    /\ finalNewline = TRUE
    /\ filePos = 1
    /\ programCounter = 1
    /\ scopeLevel = 0
    /\ functionDepth = 0
    /\ returnStack = <<>>
    /\ variables = <<>>
    /\ functions = <<>>
    /\ style = "end"
    /\ status = "idle"
    /\ stderrLog = <<>>
    /\ stdoutLog = <<>>
    /\ lastLine = 0
    /\ ifEntry = <<>>

\* evaluate(e) for any text e, whatever has been evaluated before.
EvaluateNext ==
    /\ status = "idle"
    /\ \E e \in SeriesInputs :
          /\ expression' = e
          /\ Returned(evaluate(e, precedence))
    /\ UNCHANGED <<overflowTraps, listing, finalNewline, filePos, programCounter,
                   scopeLevel, functionDepth, returnStack, variables, functions,
                   style, stderrLog, stdoutLog, lastLine, ifEntry>>

NextSeries == EvaluateNext

SpecSeries == InitSeries /\ [][NextSeries]_vars

----------------------------------------------------------------------------
(* Properties of the evaluator (SpecEval)                                   *)

\* evaluate has returned a result for the text expression.
HasEvaluated == status = "idle" /\ evalResult # NotEvaluated

\* C2: evaluate honours precedence and parentheses for + and * over Int
\* literals: "a + b * c" returns Int a+(b*c) and "(a + b) * c" returns Int
\* (a+b)*c, for all Int literals a, b, c.
C2_PrecedenceOfSumAndProduct ==
    HasEvaluated =>
        \A a \in Lits, b \in Lits, c \in Lits :
            /\ expression = SumProduct(a, b, c)
                  => evalResult = EvalResult(IntText(a + b * c), "int")
            /\ expression = ParenSumProduct(a, b, c)
                  => evalResult = EvalResult(IntText((a + b) * c), "int")

\* C3: in +, a Str operand whose unquoted content is a numeric literal is
\* coerced to that number and the two numeric sides are added: "\"a\" + b"
\* returns Int a+b, and so does "a + \"b\"".
C3_NumericStringIsAdded ==
    HasEvaluated =>
        \A a \in Lits, b \in Lits :
            expression \in {QuotedPlus(a, b), PlusQuoted(a, b)}
                => evalResult = EvalResult(IntText(a + b), "int")

\* C13: evaluate never raises a propagating fault: for every input text it
\* returns a result, and a failure is returned as a result of type error
\* that carries a message.
C13_EvaluateAlwaysReturns ==
    /\ status # "fault"
    /\ HasEvaluated
          => /\ evalResult.type \in {"int", "float", "bool", "string", "error"}
             /\ evalResult.type = "error" => evalResult.value # <<>>

\* C14: evaluate is deterministic and independent of its history: whatever
\* the Evaluator has evaluated before, failing texts with unknown operator
\* tokens included, the result it returns for a text is the one a fresh
\* Evaluator returns for it, so two evaluations of a text give the same
\* value and type.
C14_EvaluateIsHistoryIndependent ==
    [][status' = "idle"
          => evalResult' = evaluate(expression', InitialPrecedence).result]_vars

\* C14, witness: after the failing evaluations of the two texts with unknown
\* operator tokens, which have grown the precedence map, "false || true &&
\* true" has been evaluated to true.
C14_EvaluatedAfterUnknownOperators ==
    /\ HasEvaluated
    /\ {<<"=">>, <<"&">>} \subseteq DOMAIN precedence
    /\ expression = OrAnd(FALSE, TRUE, TRUE)
    /\ evalResult = EvalResult(T_true, "bool")

\* The float written in text t is the quotient a / b as far as its six
\* decimals tell: it differs from a / b by at most half a millionth.
IsQuotient(t, a, b) ==
    2 * Abs(RatOf(Numeral(t)).num * b - a * RatOf(Numeral(t)).den) <= Abs(b)

\* C15: for Int operands a and b, "a / b" returns the error "Division by
\* zero" when b = 0, Int a/b when b divides a exactly, and otherwise a Float
\* equal to the quotient; "10 / 4" is Float 2.5 and "10 / 5" is Int 2.
C15_DivisionOfInts ==
    HasEvaluated =>
        /\ \A a \in Dividends, b \in Divisors :
              expression = Division(a, b) =>
                 IF b = 0
                 THEN evalResult = Thrown("Runtime Error: Division by zero")
                 ELSE IF TruncMod(a, b) = 0
                 THEN evalResult = EvalResult(IntText(TruncDiv(a, b)), "int")
                 ELSE /\ evalResult.type = "float"
                      /\ IsQuotient(evalResult.value, a, b)
        /\ expression = Division(10, 4)
              => RatEq(RatOf(Numeral(evalResult.value)), [num |-> 5, den |-> 2])
        /\ expression = Division(16777217, 1)
              => evalResult = EvalResult(IntText(16777217), "int")

\* C16: "a % b" returns the Int remainder of a by b when both operands are
\* Int tokens and b # 0, the error "Modulo by zero" when both are Int tokens
\* and b = 0, and a Type error when an operand is not an Int token (a Float,
\* a Bool, or a Str even with numeric contents).
C16_RemainderOfInts ==
    [][/\ \A a \in Dividends, b \in Divisors :
            expression = Remainder(a, b) =>
               IF b = 0
               THEN evalResult' = Thrown("Runtime Error: Modulo by zero")
               ELSE evalResult' = EvalResult(IntText(TruncMod(a, b)), "int")
       /\ expression = Remainder(16777217, 16777218)
            => evalResult' = EvalResult(IntText(16777217), "int")
       /\ expression = T_LLongMinModMinusOne
            => status' = "idle" /\ evalResult' = EvalResult(<<"0">>, "int")
       /\ \A a \in Lits, b \in Lits, p \in BOOLEAN :
            expression \in {RemainderByFloat(a, b), RemainderOfQuoted(a, b),
                            RemainderOfBool(p, b)}
               => evalResult' \in
                     {Thrown("Type Error: Operator '%' requires integer operands"),
                      Thrown("Type Error: Operator requires numerical operands")}]_vars

\* C17: && and || return the Bool conjunction and disjunction of two Bool
\* operands and a Type error otherwise; relational operators bind tighter
\* than &&, which binds tighter than ||: "true && false" is false and
\* "1 < 2 && 2 < 3" is true.
C17_LogicalOperators ==
    HasEvaluated =>
        /\ \A p \in BOOLEAN, q \in BOOLEAN :
              /\ expression = Conjunction(p, q)
                    => evalResult = EvalResult(BoolText(p /\ q), "bool")
              /\ expression = Disjunction(p, q)
                    => evalResult = EvalResult(BoolText(p \/ q), "bool")
        /\ \A p \in BOOLEAN, q \in BOOLEAN, r \in BOOLEAN :
              /\ expression = OrAnd(p, q, r)
                    => evalResult = EvalResult(BoolText(p \/ (q /\ r)), "bool")
              /\ expression = AndOr(p, q, r)
                    => evalResult = EvalResult(BoolText((p /\ q) \/ r), "bool")
        /\ \A p \in BOOLEAN, a \in Lits, b \in Lits :
              /\ expression = AndLess(p, a, b)
                    => evalResult = EvalResult(BoolText(p /\ a < b), "bool")
              /\ expression = LessOr(a, b, p)
                    => evalResult = EvalResult(BoolText(a < b \/ p), "bool")
        /\ \A a \in Lits \cup {3}, b \in Lits, c \in Lits \cup {3} :
              expression = LessAndLess(a, b, c)
                    => evalResult = EvalResult(BoolText(a < b /\ b < c), "bool")
        /\ \A p \in BOOLEAN, a \in Lits :
              expression \in {AndInt(p, a), IntOr(a, p)}
                    => evalResult = Thrown("Type Error: Operator requires boolean operands")

\* C17, witness: "true || false && false" has been evaluated to true, which
\* is the value of true || (false && false) and not of (true || false) &&
\* false.
C17_AndBindsTighterThanOr ==
    /\ HasEvaluated
    /\ expression = OrAnd(TRUE, FALSE, FALSE)
    /\ evalResult = EvalResult(T_true, "bool")

\* C18: in +, Str + Str is the Str of the two unquoted contents joined, and
\* a Str whose contents are no numeral with a numeric other side gives the
\* Str of the contents and the literal text of the numeric side joined in
\* the order of the operands: "\"foo\" + 1" is Str "foo1" and "1 + \"foo\""
\* is Str "1foo".
C18_StringConcatenation ==
    HasEvaluated =>
        /\ \A v \in Contents, w \in Contents :
              expression = StrPlusStr(v, w)
                 => evalResult = EvalResult(Quoted(v \o w), "string")
        /\ \A v \in Words, a \in Lits :
              /\ expression = StrPlusInt(v, a)
                    => evalResult = EvalResult(Quoted(v \o NatText(a)), "string")
              /\ expression = IntPlusStr(a, v)
                    => evalResult = EvalResult(Quoted(NatText(a) \o v), "string")
        /\ \A v \in Words :
              /\ expression = StrPlusFloat(v)
                    => evalResult = EvalResult(Quoted(v \o T_1_5), "string")
              /\ expression = FloatPlusStr(v)
                    => evalResult = EvalResult(Quoted(T_1_5 \o v), "string")

\* C18, witness: "1 + \"foo\"" has been evaluated to Str "1foo".
C18_IntJoinedWithString ==
    /\ HasEvaluated
    /\ expression = IntPlusStr(1, T_foo)
    /\ evalResult = EvalResult(Quoted(<<"1">> \o T_foo), "string")

\* C27: `!e` for a Bool-valued operand expression e returns the negation of
\* the value of e, also when e begins with `!` itself: "!p" returns not p,
\* "!!p" and "!(!p)" return p, "!(p && q)" returns not (p and q); for an
\* operand that is no Bool (an Int or a Str literal) it returns the Type
\* error of the operator.
C27_NegationOfBool ==
    HasEvaluated =>
        /\ \A p \in BOOLEAN :
              /\ expression = Negation(BoolText(p))
                    => evalResult = EvalResult(BoolText(~p), "bool")
              /\ expression = Negation(Negation(BoolText(p)))
                    => evalResult = EvalResult(BoolText(p), "bool")
              /\ expression = Negation(Parenthesised(Negation(BoolText(p))))
                    => evalResult = EvalResult(BoolText(p), "bool")
        /\ \A p \in BOOLEAN, q \in BOOLEAN :
              expression = Negation(Parenthesised(Conjunction(p, q)))
                 => evalResult = EvalResult(BoolText(~(p /\ q)), "bool")
        /\ expression \in {Negation(NatText(a)) : a \in Lits}
                            \cup {Negation(Quoted(v)) : v \in Words}
              => evalResult = Thrown("Type Error: Operator '!' requires a boolean operand")

\* C28: no text makes evaluate return the internal error of an unknown
\* operator: every operator token that reaches postfix evaluation is one of
\* + - * / % ! == != < > <= >= && ||.
C28_NoUnknownOperator ==
    HasEvaluated => evalResult # Thrown("Internal Error: Unknown operator")

\* The exact difference or product of the values of two numeric operands, as
\* a fraction with a positive denominator.
ExactValue(x, op, y) ==
    IF op = <<"-">>
    THEN [num |-> x.num * y.den - y.num * x.den, den |-> x.den * y.den]
    ELSE [num |-> x.num * y.num, den |-> x.den * y.den]

\* The result the rule of C31 gives for the value v of operands of the token
\* kinds j and k.
ByArithRule(v, j, k) ==
    IF j # "Float" /\ k # "Float" /\ v.num % v.den = 0
    THEN EvalResult(IntText(v.num \div v.den), "int")
    ELSE EvalResult(FloatText(v.num, v.den), "float")

\* C31: "x - y" and "x * y" for operands that are numeric after coercion (Int
\* and Float tokens, Str literals with numeric contents) return an Int when
\* neither operand is a Float token and the value has no fractional part, and
\* a Float otherwise: "\"5\" - 2" is Int 3, "\"5.5\" - 2" is Float 3.500000,
\* "5.0 - 2" is Float 3.000000, "3 - 5" is Int -2.  Int operands from 2^24 + 1
\* on give an Int (whose value is that of the float arithmetic).  A Str
\* operand whose contents are no numeral, or a Bool operand, gives the Type
\* error of the operator.
C31_DifferenceAndProduct ==
    HasEvaluated =>
        /\ \A x \in NumericOperands, y \in NumericOperands, op \in ArithOperators :
              expression = BinaryText(x.text, op, y.text)
                 => evalResult = ByArithRule(ExactValue(x, op, y), x.kind, y.kind)
        /\ expression \in {LargeDifference, LargeProduct} => evalResult.type = "int"
        /\ \A x \in NonNumericOperands, op \in ArithOperators :
              \A y \in {o.text : o \in NumericOperands} \cup NonNumericOperands :
                 expression \in {BinaryText(x, op, y), BinaryText(y, op, x)}
                    => evalResult = Thrown("Type Error: Operator requires numerical operands")

\* C31, witness: "\"5.5\" - 2" has been evaluated to Float 3.500000.
C31_FractionalStringOperand ==
    /\ HasEvaluated
    /\ expression = BinaryText(Quoted(T_5_5), <<"-">>, <<"2">>)
    /\ evalResult = EvalResult(<<"3", ".", "5", "0", "0", "0", "0", "0">>, "float")

\* The Float product of the Float with text t (six decimals) and the Int c.
FloatTimes(q, c) == EvalResult(FloatText(q.num * c, q.den), "float")
ProductOfFloat(t, c) == FloatTimes(RatOf(Numeral(t)), c)

\* C32: binary operators of equal precedence associate left to right and
\* higher precedence binds tighter.  For Int literals a, b, c: "a - b - c"
\* returns Int (a - b) - c; "a / b * c" returns (a / b) * c, that is the
\* Division by zero error for b = 0, Int (a / b) * c when b divides a, and
\* otherwise the Float product of c and the Float that "a / b" returns (the
\* quotient in six decimals); "a - b * c" returns Int a - (b * c).
C32_AssociativityAndPrecedence ==
    HasEvaluated =>
        \A a \in Lits, b \in Lits, c \in Lits :
           /\ expression = DifferenceOfThree(a, b, c)
                 => evalResult = EvalResult(IntText((a - b) - c), "int")
           /\ expression = QuotientTimes(a, b, c)
                 => evalResult =
                       IF b = 0 THEN Thrown("Runtime Error: Division by zero")
                       ELSE IF a % b = 0 THEN EvalResult(IntText((a \div b) * c), "int")
                       ELSE ProductOfFloat(FloatText(a, b), c)
           /\ expression = DifferenceOfProduct(a, b, c)
                 => evalResult = EvalResult(IntText(a - (b * c)), "int")

\* C32, witness: "2 - 1 - 1", "2 / 2 * 2" or "2 - 1 * 2" has been evaluated:
\* texts whose value depends on the grouping.
C32_GroupingMatters ==
    /\ HasEvaluated
    /\ \/ expression = DifferenceOfThree(2, 1, 1) /\ evalResult = EvalResult(<<"0">>, "int")
       \/ expression = QuotientTimes(2, 2, 2) /\ evalResult = EvalResult(<<"2">>, "int")
       \/ expression = DifferenceOfProduct(2, 1, 2) /\ evalResult = EvalResult(<<"0">>, "int")

====
